---- MODULE Spec2Model ----
(***************************************************************************)
(* PhotonDB slab storage: SlabAllocator + MetadataStore + SlabCache +      *)
(* compression, composed by SlabStorage (src/src/storage/slab).            *)
(*                                                                         *)
(* Bytes are small naturals.  A u32 length or checksum occupies one cell   *)
(* of a file; serde_json's text for a batch is a cell sequence             *)
(* <<sequence, timestamp, n, key, size_class, offset, ...>>.               *)
(* Option<T> is a sequence of length 0 (None) or 1 (Some).                 *)
(***************************************************************************)
EXTENDS Integers, Sequences, FiniteSets, TLC

\* ------------------------------------------------------------- bounds
NKeys == 2
MinSlotSize == 7
MaxSlotSize == 9
MaxCalls == 4
MaxOpens == 1
MaxBatches == 3
CacheCapacity == 1
NThreads == 2

Keys == 1..NKeys
Threads == 1..NThreads

\* Value too long for every size class, whatever the codec does to it.
BigValue == [i \in 1..(MaxSlotSize - 3) |-> 1 + (i % 2)]
Values == {<<1>>, <<1, 2>>, BigValue}
Algorithms == {"None", "Zstd"}
FlipMasks == {1}

None == <<>>
Some(x) == <<x>>

\* ------------------------------------------------------------- helpers
Update(f, k, v) == [x \in (DOMAIN f) \cup {k} |-> IF x = k THEN v ELSE f[x]]
Remove(f, k) == [x \in (DOMAIN f) \ {k} |-> f[x]]
EmptyMap == [x \in {} |-> 0]

RECURSIVE Xor(_, _)
Xor(a, b) ==
    IF a = 0 THEN b
    ELSE IF b = 0 THEN a
    ELSE ((a + b) % 2) + 2 * Xor(a \div 2, b \div 2)

\* ------------------------------------------------------------- slot.rs
SlotId_new(size_class, offset) == [size_class |-> size_class, offset |-> offset]

\* ------------------------------------------------------------- size_class.rs
\* (current as f64 * 1.2).ceil()
Grow(current) == (current * 12 + 9) \div 10

RECURSIVE calculate_size_classes(_, _)
calculate_size_classes(current, max_size) ==
    IF current <= max_size
    THEN <<current>> \o calculate_size_classes(Grow(current), max_size)
    ELSE <<>>

SizeTable == calculate_size_classes(MinSlotSize, MaxSlotSize)
ClassIdx == 0..(Len(SizeTable) - 1)

SizeClass_new(index, slot_size) ==
    [slot_size |-> slot_size, index |-> index, free_slots |-> <<>>, next_offset |-> 0]

\* BinaryHeap<Reverse<u64>>: a multiset popped smallest first, kept here as
\* an ascending sequence.
RECURSIVE HeapPush(_, _)
HeapPush(heap, offset) ==
    IF heap = <<>> THEN <<offset>>
    ELSE IF offset <= Head(heap) THEN <<offset>> \o heap
    ELSE <<Head(heap)>> \o HeapPush(Tail(heap), offset)

SizeClass_allocate(sc) ==
    IF sc.free_slots # <<>>
    THEN [sc |-> [sc EXCEPT !.free_slots = Tail(@)], offset |-> Head(sc.free_slots)]
    ELSE [sc |-> [sc EXCEPT !.next_offset = @ + sc.slot_size], offset |-> sc.next_offset]

SizeClass_free(sc, offset) == [sc EXCEPT !.free_slots = HeapPush(@, offset)]

can_fit(sc, size) == size <= sc.slot_size

\* ------------------------------------------------------------- allocator.rs
SlabAllocator_new == [c \in ClassIdx |-> SizeClass_new(c, SizeTable[c + 1])]

LastFit(scs, total_size) ==
    LET fits == {c \in DOMAIN scs : can_fit(scs[c], total_size)}
    IN IF fits = {} THEN None ELSE Some(CHOOSE c \in fits : \A d \in fits : d <= c)

\* size_classes.iter().position(|sc| sc.can_fit(total_size))
FirstFit(scs, total_size) ==
    LET fits == {c \in DOMAIN scs : can_fit(scs[c], total_size)}
    IN IF fits = {} THEN None ELSE Some(CHOOSE c \in fits : \A d \in fits : c <= d)

SlabAllocator_allocate(scs, size) ==
    LET total_size == size + 4
        pos == FirstFit(scs, total_size)
    IN IF pos = None
       THEN [ok |-> FALSE, scs |-> scs, slot |-> None]
       ELSE LET a == SizeClass_allocate(scs[pos[1]])
            IN [ok |-> TRUE,
                scs |-> [scs EXCEPT ![pos[1]] = a.sc],
                slot |-> Some(SlotId_new(pos[1], a.offset))]

SlabAllocator_free(scs, slot_id) ==
    IF slot_id.size_class \notin DOMAIN scs
    THEN [ok |-> FALSE, scs |-> scs]
    ELSE [ok |-> TRUE,
          scs |-> [scs EXCEPT ![slot_id.size_class] = SizeClass_free(@, slot_id.offset)]]

\* A slot file region holds the u32 length and then the payload.
SlabAllocator_write(fs, scs, slot_id, data) ==
    IF slot_id.size_class \notin DOMAIN scs THEN [ok |-> FALSE, files |-> fs]
    ELSE IF Len(data) + 4 > scs[slot_id.size_class].slot_size THEN [ok |-> FALSE, files |-> fs]
    ELSE [ok |-> TRUE, files |-> Update(fs, slot_id, <<Len(data)>> \o data)]

SlabAllocator_read(fs, scs, slot_id) ==
    IF slot_id.size_class \notin DOMAIN scs THEN [ok |-> FALSE, data |-> <<>>]
    ELSE IF slot_id \notin DOMAIN fs THEN [ok |-> FALSE, data |-> <<>>]
    ELSE LET region == fs[slot_id]
             len == region[1]
         IN IF Len(region) < 1 + len THEN [ok |-> FALSE, data |-> <<>>]
            ELSE [ok |-> TRUE, data |-> SubSeq(region, 2, 1 + len)]

\* ------------------------------------------------------------- compression.rs
\* zstd stands as a framed run-length code: a magic cell, then (byte, count)
\* pairs; short inputs grow, as they do under zstd's frame header.
RECURSIVE RunLength(_)
RunLength(data) ==
    IF Len(data) < 2 \/ data[2] # data[1] THEN (IF data = <<>> THEN 0 ELSE 1)
    ELSE 1 + RunLength(Tail(data))

RECURSIVE RunEncode(_)
RunEncode(data) ==
    IF data = <<>> THEN <<>>
    ELSE LET n == RunLength(data)
         IN <<data[1], n>> \o RunEncode(SubSeq(data, n + 1, Len(data)))

RECURSIVE RunDecode(_)
RunDecode(pairs) ==
    IF pairs = <<>> THEN <<>>
    ELSE [i \in 1..pairs[2] |-> pairs[1]] \o RunDecode(SubSeq(pairs, 3, Len(pairs)))

compress(data, algorithm) ==
    IF algorithm = "None" THEN [ok |-> TRUE, data |-> data]
    ELSE [ok |-> TRUE, data |-> <<40>> \o RunEncode(data)]

decompress(data, algorithm) ==
    IF algorithm = "None" THEN [ok |-> TRUE, data |-> data]
    ELSE IF data = <<>> \/ data[1] # 40 \/ Len(data) % 2 # 1
         THEN [ok |-> FALSE, data |-> <<>>]
         ELSE [ok |-> TRUE, data |-> RunDecode(Tail(data))]

\* ------------------------------------------------------------- cache.rs
\* LruCache as a sequence of entries, most recently used first.
CachePos(cache, key) == {i \in 1..Len(cache) : cache[i].key = key}

SeqWithout(s, i) == SubSeq(s, 1, i - 1) \o SubSeq(s, i + 1, Len(s))

SlabCache_new == <<>>

SlabCache_get(cache, key) ==
    IF CachePos(cache, key) = {}
    THEN [cache |-> cache, hit |-> None]
    ELSE LET i == CHOOSE j \in CachePos(cache, key) : TRUE
         IN [cache |-> <<cache[i]>> \o SeqWithout(cache, i), hit |-> Some(cache[i])]

SlabCache_remove_Keep(cache, key) == cache

SlabCache_remove(cache, key) ==
    IF CachePos(cache, key) = {} THEN cache
    ELSE SeqWithout(cache, CHOOSE j \in CachePos(cache, key) : TRUE)

SlabCache_put(cache, key, slot_id, data) ==
    LET entry == [key |-> key, slot_id |-> slot_id, data |-> data]
        rest == SelectSeq(cache, LAMBDA e : e.key # key)
        all == <<entry>> \o rest
    IN IF Len(all) > CacheCapacity THEN SubSeq(all, 1, CacheCapacity) ELSE all

\* ------------------------------------------------------------- metadata.rs
\* The clock is not modelled: nothing reads a batch's timestamp back.
MetadataBatch_new(sequence, mappings) ==
    [sequence |-> sequence, timestamp |-> 0, mappings |-> mappings]

RECURSIVE FlattenMappings(_)
FlattenMappings(mappings) ==
    IF mappings = <<>> THEN <<>>
    ELSE <<mappings[1][1], mappings[1][2].size_class, mappings[1][2].offset>>
         \o FlattenMappings(Tail(mappings))

RECURSIVE ParseMappings(_)
ParseMappings(cells) ==
    IF cells = <<>> THEN <<>>
    ELSE << <<cells[1], SlotId_new(cells[2], cells[3])>> >>
         \o ParseMappings(SubSeq(cells, 4, Len(cells)))

\* serde_json::to_vec(batch)
Serialize(batch) ==
    <<batch.sequence, batch.timestamp, Len(batch.mappings)>> \o FlattenMappings(batch.mappings)

\* serde_json::from_slice(json)
Deserialize(json) ==
    IF Len(json) < 3 \/ Len(json) # 3 + 3 * json[3]
    THEN [ok |-> FALSE, batch |-> MetadataBatch_new(0, <<>>)]
    ELSE [ok |-> TRUE,
          batch |-> [sequence |-> json[1], timestamp |-> json[2],
                     mappings |-> ParseMappings(SubSeq(json, 4, Len(json)))]]

\* json.iter().fold(0u32, |acc, &b| acc ^ (b as u32))
RECURSIVE Checksum(_)
Checksum(json) == IF json = <<>> THEN 0 ELSE Xor(Checksum(Tail(json)), Head(json))

to_bytes(batch) ==
    LET json == Serialize(batch)
    IN <<Len(json)>> \o json \o <<Checksum(json)>>

from_bytes_Unchecked(bytes) ==
    IF Len(bytes) < 2 \/ Len(bytes) < bytes[1] + 2
    THEN [ok |-> FALSE, batch |-> MetadataBatch_new(0, <<>>)]
    ELSE Deserialize(SubSeq(bytes, 2, 1 + bytes[1]))

from_bytes(bytes) ==
    IF Len(bytes) < 2 THEN [ok |-> FALSE, batch |-> MetadataBatch_new(0, <<>>)]
    ELSE LET len == bytes[1]
         IN IF Len(bytes) < len + 2
            THEN [ok |-> FALSE, batch |-> MetadataBatch_new(0, <<>>)]
            ELSE LET json == SubSeq(bytes, 2, 1 + len)
                     stored_checksum == bytes[2 + len]
                 IN IF stored_checksum # Checksum(json)
                    THEN [ok |-> FALSE, batch |-> MetadataBatch_new(0, <<>>)]
                    ELSE Deserialize(json)

\* for (key, slot) in mappings { index.insert(key, slot) }
RECURSIVE ApplyMappings(_, _)
ApplyMappings(index, mappings) ==
    IF mappings = <<>> THEN index
    ELSE ApplyMappings(Update(index, mappings[1][1], mappings[1][2]), Tail(mappings))

Max(a, b) == IF a >= b THEN a ELSE b

\* The replay loop of recover(), from cell pos of the log on.
RECURSIVE RecoverLoop(_, _, _, _)
RecoverLoop(bytes, pos, index, max_sequence) ==
    IF pos > Len(bytes)
    THEN [ok |-> TRUE, index |-> index, next_sequence |-> max_sequence + 1]
    ELSE LET len == bytes[pos]
         IN IF pos + len + 1 > Len(bytes)
            THEN [ok |-> FALSE, index |-> EmptyMap, next_sequence |-> 0]
            ELSE LET r == from_bytes(SubSeq(bytes, pos, pos + len + 1))
                 IN IF r.ok
                    THEN RecoverLoop(bytes, pos + len + 2,
                                     ApplyMappings(index, r.batch.mappings),
                                     Max(max_sequence, r.batch.sequence))
                    ELSE [ok |-> TRUE, index |-> index, next_sequence |-> max_sequence + 1]

\* MetadataStore::new: an absent log leaves the fresh store as it is.
MetadataStore_recover(bytes) ==
    IF bytes = <<>>
    THEN [ok |-> TRUE, index |-> EmptyMap, next_sequence |-> 0]
    ELSE RecoverLoop(bytes, 1, EmptyMap, 0)

\* ms = [index, next_sequence, log, synced]; synced counts the cells of the
\* log that sync_all has made durable.
LogAppend_NoSync(ms, bytes) == [ms EXCEPT !.log = @ \o bytes]

LogAppend(ms, bytes) ==
    [ms EXCEPT !.log = @ \o bytes, !.synced = Len(ms.log) + Len(bytes)]

MetadataStore_write_batch(ms, mappings) ==
    IF mappings = <<>> THEN ms
    ELSE LET sequence == ms.next_sequence
             ms1 == [ms EXCEPT !.next_sequence = @ + 1]
             batch == MetadataBatch_new(sequence, mappings)
             ms2 == LogAppend(ms1, to_bytes(batch))
         IN [ms2 EXCEPT !.index = ApplyMappings(@, mappings)]

MetadataStore_get(index, key) == IF key \in DOMAIN index THEN Some(index[key]) ELSE None

MetadataStore_remove(ms, key) == [ms EXCEPT !.index = Remove(@, key)]

Orders(S) == {o \in [1..Cardinality(S) -> S] : \A i, j \in 1..Cardinality(S) : o[i] = o[j] => i = j}

SnapshotMappings_DropLast(index, order) ==
    [i \in 1..(Len(order) - 1) |-> <<order[i], index[order[i]]>>]

\* index.into_iter().collect(), in the hash map's iteration order
SnapshotMappings(index, order) == [i \in 1..Len(order) |-> <<order[i], index[order[i]]>>]

MetadataStore_compact(ms, order) ==
    LET bytes == to_bytes(MetadataBatch_new(0, SnapshotMappings(ms.index, order)))
    IN [ms EXCEPT !.log = bytes, !.synced = Len(bytes), !.next_sequence = 1]

\* ------------------------------------------------------------- storage.rs
\* st = [scs, files, meta, cache, compression]: one SlabStorage and the
\* files under it.
SlabStorage_get(st, key) ==
    LET c == SlabCache_get(st.cache, key)
    IN IF c.hit # None
       THEN [ok |-> TRUE, val |-> Some(c.hit[1].data), st |-> [st EXCEPT !.cache = c.cache]]
       ELSE LET slot_id == MetadataStore_get(st.meta.index, key)
            IN IF slot_id = None
               THEN [ok |-> TRUE, val |-> None, st |-> st]
               ELSE LET rd == SlabAllocator_read(st.files, st.scs, slot_id[1])
                        data == decompress(rd.data, st.compression)
                    IN IF ~rd.ok \/ ~data.ok
                       THEN [ok |-> FALSE, val |-> None, st |-> st]
                       ELSE [ok |-> TRUE, val |-> Some(data.data),
                             st |-> [st EXCEPT !.cache =
                                        SlabCache_put(@, key, slot_id[1], data.data)]]

SlabStorage_set(st, key, value) ==
    LET compressed == compress(value, st.compression)
        old == MetadataStore_get(st.meta.index, key)
        fr == IF old # None THEN SlabAllocator_free(st.scs, old[1])
              ELSE [ok |-> TRUE, scs |-> st.scs]
        al == SlabAllocator_allocate(fr.scs, Len(compressed.data))
        size == Len(compressed.data)
    IN IF ~compressed.ok \/ ~fr.ok
       THEN [ok |-> FALSE, st |-> st, slot |-> None, old |-> old, size |-> size]
       ELSE IF ~al.ok
       THEN [ok |-> FALSE, st |-> [st EXCEPT !.scs = fr.scs],
             slot |-> None, old |-> old, size |-> size]
       ELSE LET wr == SlabAllocator_write(st.files, al.scs, al.slot[1], compressed.data)
            IN IF ~wr.ok
               THEN [ok |-> FALSE, st |-> [st EXCEPT !.scs = al.scs],
                     slot |-> al.slot, old |-> old, size |-> size]
               ELSE [ok |-> TRUE,
                     st |-> [st EXCEPT
                               !.scs = al.scs,
                               !.files = wr.files,
                               !.meta = MetadataStore_write_batch(@, << <<key, al.slot[1]>> >>),
                               !.cache = SlabCache_remove(@, key)],
                     slot |-> al.slot, old |-> old, size |-> size]

SlabStorage_delete(st, key) ==
    LET slot_id == MetadataStore_get(st.meta.index, key)
    IN IF slot_id = None
       THEN [ok |-> TRUE, val |-> Some(FALSE), st |-> st, old |-> None]
       ELSE LET fr == SlabAllocator_free(st.scs, slot_id[1])
            IN IF ~fr.ok
               THEN [ok |-> FALSE, val |-> None, st |-> st, old |-> slot_id]
               ELSE [ok |-> TRUE, val |-> Some(TRUE),
                     st |-> [st EXCEPT
                               !.scs = fr.scs,
                               !.meta = MetadataStore_remove(@, key),
                               !.cache = SlabCache_remove(@, key)],
                     old |-> slot_id]

\* allocator.flush(): sync_all on every slot file.  No crash is modelled, so
\* a file's contents are the same before and after the sync.
SlabStorage_flush(st) == st

SlabStorage_compact_metadata(st, order) ==
    [st EXCEPT !.meta = MetadataStore_compact(@, order)]

\* SlabStorage::with_options over the files already on disk: a fresh
\* allocator, the index replayed from the log, an empty cache.
SlabStorage_with_options(st) ==
    LET r == MetadataStore_recover(st.meta.log)
    IN [ok |-> r.ok,
        st |-> [st EXCEPT
                  !.scs = SlabAllocator_new,
                  !.meta = [@ EXCEPT !.index = r.index, !.next_sequence = r.next_sequence],
                  !.cache = SlabCache_new]]

\* ------------------------------------------------------------- database.rs
\* A name or key is a sequence of characters.  The characters the code
\* tells apart, and the three literal key prefixes, each stand as one
\* symbol; a byte string is kept in the store as the numeral it spells.
Ch == [letter |-> 1, digit |-> 2, underscore |-> 3, dot |-> 4, colon |-> 5,
       meta_databases |-> 6, meta_tables |-> 7, doc |-> 8]

KeyBase == 9

RECURSIVE KeyCode(_)
KeyCode(s) ==
    IF s = <<>> THEN 0 ELSE KeyCode(SubSeq(s, 1, Len(s) - 1)) * KeyBase + s[Len(s)]

RECURSIVE KeyChars(_)
KeyChars(n) ==
    IF n = 0 THEN <<>> ELSE Append(KeyChars(n \div KeyBase), n % KeyBase)

is_ascii_alphabetic(c) == c = Ch.letter
is_ascii_alphanumeric(c) == c = Ch.letter \/ c = Ch.digit

MaxNameLen == 128

validate_name(name) ==
    IF name = <<>> THEN FALSE
    ELSE IF Len(name) > MaxNameLen THEN FALSE
    ELSE IF ~is_ascii_alphabetic(name[1]) /\ name[1] # Ch.underscore THEN FALSE
    ELSE \A i \in 1..Len(name) : is_ascii_alphanumeric(name[i]) \/ name[i] = Ch.underscore

\* ------------------------------------------------------------- engine.rs
\* Datum: <<0, n>> Number, <<1, chars>> String, <<2, items>> Array,
\* <<3, values>> Object (the values in the order of the field names).
DNumber(n) == <<0, n>>
DString(s) == <<1, s>>
DArray(xs) == <<2, xs>>
DObject(xs) == <<3, xs>>

\* serde_json::to_vec: a tag cell, then the number, the string's numeral, or
\* the count and the members.
RECURSIVE datum_to_bytes(_)
RECURSIVE DatumsToBytes(_)
DatumsToBytes(xs) ==
    IF xs = <<>> THEN <<>> ELSE datum_to_bytes(xs[1]) \o DatumsToBytes(Tail(xs))

datum_to_bytes(datum) ==
    IF datum[1] = 0 THEN <<0, datum[2]>>
    ELSE IF datum[1] = 1 THEN <<1, KeyCode(datum[2])>>
    ELSE <<datum[1], Len(datum[2])>> \o DatumsToBytes(datum[2])

\* serde_json::from_slice
RECURSIVE ParseDatum(_)
RECURSIVE ParseDatums(_, _)
ParseDatums(bytes, n) ==
    IF n = 0 THEN [ok |-> TRUE, datum |-> <<>>, rest |-> bytes]
    ELSE LET h == ParseDatum(bytes)
         IN IF ~h.ok THEN [ok |-> FALSE, datum |-> <<>>, rest |-> <<>>]
            ELSE LET t == ParseDatums(h.rest, n - 1)
                 IN [ok |-> t.ok, datum |-> <<h.datum>> \o t.datum, rest |-> t.rest]

ParseDatum(bytes) ==
    IF Len(bytes) < 2 THEN [ok |-> FALSE, datum |-> <<>>, rest |-> <<>>]
    ELSE LET rest == SubSeq(bytes, 3, Len(bytes))
         IN IF bytes[1] = 0 THEN [ok |-> TRUE, datum |-> DNumber(bytes[2]), rest |-> rest]
            ELSE IF bytes[1] = 1
            THEN [ok |-> TRUE, datum |-> DString(KeyChars(bytes[2])), rest |-> rest]
            ELSE IF bytes[1] \in {2, 3}
            THEN LET m == ParseDatums(rest, bytes[2])
                 IN [ok |-> m.ok, datum |-> <<bytes[1], m.datum>>, rest |-> m.rest]
            ELSE [ok |-> FALSE, datum |-> <<>>, rest |-> <<>>]

bytes_to_datum(bytes) ==
    LET r == ParseDatum(bytes)
    IN [ok |-> r.ok /\ r.rest = <<>>, datum |-> r.datum]

starts_with(s, prefix) ==
    Len(prefix) <= Len(s) /\ SubSeq(s, 1, Len(prefix)) = prefix

DatabaseKey(name) == <<Ch.meta_databases>> \o name
TableKey(db, table) == <<Ch.meta_tables>> \o db \o <<Ch.dot>> \o table
DocPrefix(db, table) == <<Ch.doc>> \o db \o <<Ch.colon>> \o table \o <<Ch.colon>>

Engine_get(st, key) ==
    LET r == SlabStorage_get(st, KeyCode(key))
    IN IF ~r.ok THEN [ok |-> FALSE, val |-> None, st |-> r.st]
       ELSE IF r.val = None THEN [ok |-> TRUE, val |-> None, st |-> r.st]
       ELSE LET d == bytes_to_datum(r.val[1])
            IN [ok |-> d.ok, val |-> IF d.ok THEN Some(d.datum) ELSE None, st |-> r.st]

Engine_set(st, key, value) ==
    LET r == SlabStorage_set(st, KeyCode(key), datum_to_bytes(value))
    IN [ok |-> r.ok, st |-> r.st]

Engine_delete(st, key) ==
    LET r == SlabStorage_delete(st, KeyCode(key))
    IN [ok |-> r.ok, st |-> r.st]

\* self.inner.keys() handed out in the order `order`
Engine_keys(order) == [i \in 1..Len(order) |-> KeyChars(order[i])]

create_database(st, name) ==
    Engine_set(st, DatabaseKey(name), DObject(<<DString(name)>>))

create_table(st, db, table, primary_key) ==
    Engine_set(st, TableKey(db, table),
               DObject(<<DString(table), DString(db), DString(primary_key),
                         DNumber(0), DArray(<<>>)>>))

drop_table(st, db, table) == Engine_delete(st, TableKey(db, table))

list_tables_in_db(db, order) ==
    LET prefix == <<Ch.meta_tables>> \o db \o <<Ch.dot>>
        keys == SelectSeq(Engine_keys(order), LAMBDA k : starts_with(k, prefix))
    IN [i \in 1..Len(keys) |-> SubSeq(keys[i], Len(prefix) + 1, Len(keys[i]))]

RECURSIVE DropTables(_, _, _)
DropTables(st, db, tables) ==
    IF tables = <<>> THEN [ok |-> TRUE, st |-> st]
    ELSE LET r == drop_table(st, db, tables[1])
         IN IF ~r.ok THEN r ELSE DropTables(r.st, db, Tail(tables))

\* order: the order keys() yields the keys left after the delete
drop_database(st, name, order) ==
    LET d == Engine_delete(st, DatabaseKey(name))
    IN IF ~d.ok THEN d ELSE DropTables(d.st, name, list_tables_in_db(name, order))

RECURSIVE ScanKeys(_, _, _)
ScanKeys(st, prefix, keys) ==
    IF keys = <<>> THEN [ok |-> TRUE, st |-> st, docs |-> <<>>, keys |-> <<>>]
    ELSE IF ~starts_with(keys[1], prefix) THEN ScanKeys(st, prefix, Tail(keys))
    ELSE LET g == Engine_get(st, keys[1])
         IN IF ~g.ok THEN [ok |-> FALSE, st |-> g.st, docs |-> <<>>, keys |-> <<>>]
            ELSE LET t == ScanKeys(g.st, prefix, Tail(keys))
                 IN [ok |-> t.ok, st |-> t.st,
                     docs |-> IF t.ok THEN g.val \o t.docs ELSE <<>>,
                     keys |-> IF t.ok THEN <<keys[1]>> \o t.keys ELSE <<>>]

scan_table(st, db, table, order) ==
    ScanKeys(st, DocPrefix(db, table), Engine_keys(order))

\* ------------------------------------------------------------- compiler.rs, executor.rs
\* A JSON value is tagged like a Datum: <<0, n>> number, <<1, chars>>
\* string, <<2, items>> array, <<3, values>> object, <<4>> null.  A number
\* that is not an integer is <<5, num, den>> in lowest terms, den > 1.
DNull == <<4>>

RECURSIVE Gcd(_, _)
Gcd(a, b) == IF b = 0 THEN a ELSE Gcd(b, a % b)

Abs(n) == IF n < 0 THEN 0 - n ELSE n

\* Datum::Number(num / den), den # 0
DRational(num, den) ==
    LET g == Gcd(Abs(num), Abs(den))
        n == (IF den < 0 THEN 0 - num ELSE num) \div g
        d == Abs(den) \div g
    IN IF d = 1 THEN DNumber(n) ELSE <<5, n, d>>

\* the f64 of a Number as <<num, den>>, nothing for any other datum
as_number(datum) ==
    IF datum[1] = 0 THEN Some(<<datum[2], 1>>)
    ELSE IF datum[1] = 5 THEN Some(<<datum[2], datum[3]>>)
    ELSE None

as_array(datum) == IF datum[1] = 2 THEN Some(datum[2]) ELSE None

RECURSIVE json_to_datum(_)
json_to_datum(json) ==
    IF json[1] \notin {2, 3} THEN json
    ELSE <<json[1], [i \in 1..Len(json[2]) |-> json_to_datum(json[2][i])]>>

RECURSIVE datum_to_json(_)
datum_to_json(datum) ==
    IF datum[1] \notin {2, 3} THEN datum
    ELSE <<datum[1], [i \in 1..Len(datum[2]) |-> datum_to_json(datum[2][i])]>>

TermType_from_u64 ==
    (0..4) \cup (9..24) \cup (28..37) \cup (39..42) \cup {44} \cup (46..51)
           \cup (53..57) \cup {60} \cup (67..82) \cup (99..103) \cup (152..156)

Term_datum(datum) == [term_type |-> 0, args |-> <<>>, datum |-> Some(datum)]
Term_new(term_type, args) == [term_type |-> term_type, args |-> args, datum |-> None]
NoTerm == [term_type |-> 0, args |-> <<>>, datum |-> None]

RECURSIVE compile_term(_)
RECURSIVE CompileArgs(_)
CompileArgs(jsons) ==
    IF jsons = <<>> THEN [ok |-> TRUE, terms |-> <<>>, msg |-> ""]
    ELSE LET h == compile_term(jsons[1])
         IN IF ~h.ok THEN [ok |-> FALSE, terms |-> <<>>, msg |-> "Failed to parse term arguments"]
            ELSE LET t == CompileArgs(Tail(jsons))
                 IN [ok |-> t.ok, terms |-> <<h.term>> \o t.terms, msg |-> t.msg]

compile_term(json) ==
    IF json[1] # 2 THEN [ok |-> TRUE, term |-> Term_datum(json_to_datum(json)), msg |-> ""]
    ELSE LET arr == json[2]
         IN IF arr = <<>> THEN [ok |-> FALSE, term |-> NoTerm, msg |-> "Empty term array"]
            ELSE IF arr[1][1] # 0
            THEN [ok |-> FALSE, term |-> NoTerm, msg |-> "Invalid term type"]
            ELSE IF arr[1][2] \notin TermType_from_u64
            THEN [ok |-> FALSE, term |-> NoTerm, msg |-> "Unknown term type"]
            ELSE IF arr[1][2] = 0
            THEN IF Len(arr) < 2
                 THEN [ok |-> FALSE, term |-> NoTerm, msg |-> "DATUM term requires value argument"]
                 ELSE [ok |-> TRUE, term |-> Term_datum(json_to_datum(arr[2])), msg |-> ""]
            ELSE LET args == IF Len(arr) > 1 /\ arr[2][1] = 2 THEN CompileArgs(arr[2][2])
                             ELSE [ok |-> TRUE, terms |-> <<>>, msg |-> ""]
                 IN IF ~args.ok THEN [ok |-> FALSE, term |-> NoTerm, msg |-> args.msg]
                    ELSE [ok |-> TRUE, term |-> Term_new(arr[1][2], args.terms), msg |-> ""]

\* The term types by their wire numbers.
TT == [Datum |-> 0, MakeArray |-> 1, GetAll |-> 12, Div |-> 23, Append |-> 28,
       GetField |-> 40, Pluck |-> 46, Between |-> 49, Reduce |-> 50, Map |-> 51,
       OrderBy |-> 55, Count |-> 57, CoerceTo |-> 71, Update |-> 73, Delete |-> 74,
       Insert |-> 76, Group |-> 152, Sum |-> 153, Avg |-> 154, Min |-> 155,
       Max |-> 156]

Value(datum) == [ok |-> TRUE, datum |-> datum, msg |-> ""]
Raise(msg) == [ok |-> FALSE, datum |-> <<>>, msg |-> msg]

\* arr.iter().filter_map(|d| d.as_number()), each number as <<num, den>>
RECURSIVE Numbers(_)
Numbers(arr) ==
    IF arr = <<>> THEN <<>>
    ELSE (IF as_number(arr[1]) = None THEN <<>> ELSE as_number(arr[1]))
             \o Numbers(Tail(arr))

\* .sum() of the numbers, from 0.0
RECURSIVE SumOf(_)
SumOf(nums) ==
    IF nums = <<>> THEN <<0, 1>>
    ELSE LET t == SumOf(Tail(nums))
         IN <<nums[1][1] * t[2] + t[1] * nums[1][2], nums[1][2] * t[2]>>

NumLess(a, b) == a[1] * b[2] < b[1] * a[2]

\* min_by keeps the first of equal minima, max_by the last of equal maxima
RECURSIVE MinOf(_)
MinOf(nums) ==
    IF Len(nums) = 1 THEN nums[1]
    ELSE LET t == MinOf(Tail(nums))
         IN IF NumLess(t, nums[1]) THEN t ELSE nums[1]

RECURSIVE MaxOf(_)
MaxOf(nums) ==
    IF Len(nums) = 1 THEN nums[1]
    ELSE LET t == MaxOf(Tail(nums))
         IN IF NumLess(t, nums[1]) THEN nums[1] ELSE t

count(sequence) ==
    IF as_array(sequence) = None THEN Raise("COUNT requires sequence")
    ELSE Value(DNumber(Len(as_array(sequence)[1])))

sum(sequence) ==
    IF as_array(sequence) = None THEN Raise("SUM requires sequence")
    ELSE LET t == SumOf(Numbers(as_array(sequence)[1]))
         IN Value(DRational(t[1], t[2]))

avg(sequence) ==
    IF as_array(sequence) = None THEN Raise("AVG requires sequence")
    ELSE LET arr == as_array(sequence)[1]
             t == SumOf(Numbers(arr))
         IN IF arr = <<>> THEN Value(DNull)
            ELSE Value(DRational(t[1], t[2] * Len(arr)))

min(sequence) ==
    IF as_array(sequence) = None THEN Raise("MIN requires sequence")
    ELSE LET nums == Numbers(as_array(sequence)[1])
         IN IF nums = <<>> THEN Raise("MIN on empty sequence")
            ELSE Value(DRational(MinOf(nums)[1], MinOf(nums)[2]))

max(sequence) ==
    IF as_array(sequence) = None THEN Raise("MAX requires sequence")
    ELSE LET nums == Numbers(as_array(sequence)[1])
         IN IF nums = <<>> THEN Raise("MAX on empty sequence")
            ELSE Value(DRational(MaxOf(nums)[1], MaxOf(nums)[2]))

div(a, b) ==
    IF as_number(a) = None \/ as_number(b) = None THEN Raise("DIV requires numbers")
    ELSE LET x == as_number(a)[1]
             y == as_number(b)[1]
         IN IF y[1] = 0 THEN Raise("Division by zero")
            ELSE Value(DRational(x[1] * y[2], x[2] * y[1]))

\* The operators the executor has only a placeholder for, and the value
\* the placeholder returns whatever its arguments are.  The objects are
\* {inserted, errors}, {replaced, unchanged, errors}, {deleted, errors}.
Placeholder(term_type) ==
    IF term_type \in {TT.GetAll, TT.Between, TT.Map, TT.OrderBy, TT.Pluck, TT.Group, TT.Append}
    THEN Some(DArray(<<>>))
    ELSE IF term_type \in {TT.Reduce, TT.GetField, TT.CoerceTo} THEN Some(DNull)
    ELSE IF term_type = TT.Insert THEN Some(DObject(<<DNumber(1), DNumber(0)>>))
    ELSE IF term_type = TT.Update THEN Some(DObject(<<DNumber(0), DNumber(0), DNumber(0)>>))
    ELSE IF term_type = TT.Delete THEN Some(DObject(<<DNumber(0), DNumber(0)>>))
    ELSE None

\* execute_term for the term types of TT; the collectors take their
\* sequence from their first argument.
RECURSIVE execute_term(_)
RECURSIVE make_array(_)
make_array(args) ==
    IF args = <<>> THEN Value(DArray(<<>>))
    ELSE LET h == execute_term(args[1])
         IN IF ~h.ok THEN h
            ELSE LET t == make_array(Tail(args))
                 IN IF ~t.ok THEN t ELSE Value(DArray(<<h.datum>> \o t.datum[2]))

execute_term(term) ==
    IF term.term_type = TT.Datum
    THEN IF term.datum = None THEN Raise("Datum term missing value")
         ELSE Value(term.datum[1])
    ELSE IF term.term_type = TT.MakeArray THEN make_array(term.args)
    ELSE IF term.term_type = TT.Div
    THEN IF Len(term.args) # 2 THEN Raise("DIV requires exactly two arguments")
         ELSE LET a == execute_term(term.args[1])
                  b == execute_term(term.args[2])
              IN IF ~a.ok THEN a
                 ELSE IF as_number(a.datum) = None THEN Raise("DIV requires numbers")
                 ELSE IF ~b.ok THEN b
                 ELSE div(a.datum, b.datum)
    ELSE IF term.term_type \in {TT.Count, TT.Sum, TT.Avg, TT.Min, TT.Max}
    THEN LET sequence == execute_term(term.args[1])
         IN IF ~sequence.ok THEN sequence
            ELSE IF term.term_type = TT.Count THEN count(sequence.datum)
            ELSE IF term.term_type = TT.Sum THEN sum(sequence.datum)
            ELSE IF term.term_type = TT.Avg THEN avg(sequence.datum)
            ELSE IF term.term_type = TT.Min THEN min(sequence.datum)
            ELSE max(sequence.datum)
    ELSE IF Placeholder(term.term_type) # None THEN Value(Placeholder(term.term_type)[1])
    ELSE Raise("Unsupported term type")

\* ------------------------------------------------------------- protocol.rs
VERSION_V0_1 == 1063369270
VERSION_V0_2 == 1915781601
VERSION_V0_3 == 1601562686
VERSION_V0_4 == 1074539808
VERSION_V1_0 == 885177795
PROTOCOL_PROTOBUF == 656407617
PROTOCOL_JSON == 2120839367
MAX_MESSAGE_SIZE == 268435456
MaxAuthKeyLen == 4096

ProtocolVersion_from_magic(magic) ==
    IF magic = VERSION_V0_1 THEN Some("V0_1")
    ELSE IF magic = VERSION_V0_2 THEN Some("V0_2")
    ELSE IF magic = VERSION_V0_3 THEN Some("V0_3")
    ELSE IF magic = VERSION_V0_4 THEN Some("V0_4")
    ELSE IF magic = VERSION_V1_0 THEN Some("V1_0")
    ELSE None

supports_json(version) == version \in {"V0_3", "V0_4", "V1_0"}

WireProtocol_from_magic(magic) ==
    IF magic = PROTOCOL_JSON THEN Some("Json")
    ELSE IF magic = PROTOCOL_PROTOBUF THEN Some("Protobuf")
    ELSE None

NoHandshake == [ok |-> FALSE, version |-> "", protocol |-> "", auth_key |-> None, reply |-> None]

\* hello = [version_magic, key_len, protocol_magic]: what the client sends,
\* each part read only if the code gets to it.
Handshake_accept(hello) ==
    LET version == ProtocolVersion_from_magic(hello.version_magic)
    IN IF version = None THEN NoHandshake
       ELSE IF version[1] # "V0_1" /\ hello.key_len > MaxAuthKeyLen THEN NoHandshake
       ELSE IF ~supports_json(version[1]) THEN NoHandshake
       ELSE LET protocol == WireProtocol_from_magic(hello.protocol_magic)
            IN IF protocol = None THEN NoHandshake
               ELSE [ok |-> TRUE, version |-> version[1], protocol |-> protocol[1],
                     auth_key |-> Some(hello.key_len),
                     reply |-> Some(IF version[1] = "V1_0" THEN "json_success" ELSE "SUCCESS")]

\* frame = [size, token, valid, query]: the declared payload length, the
\* token, whether the payload parses as JSON, and the JSON object it
\* parses to, [type, query] with each member present or not.
read_query_NoLimit(frame) ==
    IF ~frame.valid THEN [ok |-> FALSE, token |-> 0, query |-> frame.query]
    ELSE [ok |-> TRUE, token |-> frame.token, query |-> frame.query]

read_query(frame) ==
    IF frame.size = 0 THEN [ok |-> FALSE, token |-> 0, query |-> frame.query]
    ELSE IF frame.size > MAX_MESSAGE_SIZE THEN [ok |-> FALSE, token |-> 0, query |-> frame.query]
    ELSE IF ~frame.valid THEN [ok |-> FALSE, token |-> 0, query |-> frame.query]
    ELSE [ok |-> TRUE, token |-> frame.token, query |-> frame.query]

write_response_Twice(out, msg) == out \o <<msg, msg>>

write_response(out, msg) == Append(out, msg)

\* ------------------------------------------------------------- connection.rs
\* A response: the token and the members of the payload object, each
\* present or not.
Response(token, t, r) ==
    [token |-> token, t |-> t, r |-> r, e |-> None, b |-> None, m |-> None]

Failure(msg) == [ok |-> FALSE, response |-> Response(0, 0, <<>>), msg |-> msg,
                 active_queries |-> {}]

handle_start_query(active_queries, token, query) ==
    IF query.query = None THEN Failure(<<"Missing query term">>)
    ELSE LET c == compile_term(query.query[1])
         IN IF ~c.ok THEN Failure(<<"Query compilation failed", c.msg>>)
            ELSE LET x == execute_term(c.term)
                 IN IF ~x.ok THEN Failure(<<"Query execution failed", x.msg>>)
                    ELSE [ok |-> TRUE, response |-> Response(token, 1, <<datum_to_json(x.datum)>>),
                          msg |-> <<>>, active_queries |-> active_queries]

handle_stop_query(active_queries, token, query) ==
    [ok |-> TRUE, response |-> Response(token, 2, <<>>), msg |-> <<>>,
     active_queries |-> active_queries \ {token}]

handle_continue_query(active_queries, token, query) ==
    [ok |-> TRUE, response |-> Response(token, 2, <<>>), msg |-> <<>>,
     active_queries |-> active_queries]

handle_noreply_wait(active_queries, token, query) ==
    [ok |-> TRUE, response |-> Response(token, 3, <<>>), msg |-> <<>>,
     active_queries |-> active_queries]

\* the one element of r is the object {id, name, version}
handle_server_info(active_queries, token, query) ==
    [ok |-> TRUE,
     response |-> Response(token, 4, <<DObject(<<DString("rethinkdb-3.0"),
                                                 DString("PhotonDB"),
                                                 DString("CARGO_PKG_VERSION")>>)>>),
     msg |-> <<>>, active_queries |-> active_queries]

handle_query(active_queries, token, query) ==
    IF query.type = None THEN Failure(<<"Missing query type">>)
    ELSE IF query.type[1] = "START" THEN handle_start_query(active_queries, token, query)
    ELSE IF query.type[1] = "CONTINUE" THEN handle_continue_query(active_queries, token, query)
    ELSE IF query.type[1] = "STOP" THEN handle_stop_query(active_queries, token, query)
    ELSE IF query.type[1] = "NOREPLY_WAIT" THEN handle_noreply_wait(active_queries, token, query)
    ELSE IF query.type[1] = "SERVER_INFO" THEN handle_server_info(active_queries, token, query)
    ELSE Failure(<<"Unknown query type", query.type[1]>>)

ErrorResponse_NoToken(token, msg) ==
    [token |-> 0, t |-> 18, r |-> <<>>, e |-> Some(1000000), b |-> Some(<<>>),
     m |-> Some(msg)]

\* the error_response ConnectionHandler::handle builds
ErrorResponse(token, msg) ==
    [token |-> token, t |-> 18, r |-> <<>>, e |-> Some(1000000), b |-> Some(<<>>),
     m |-> Some(msg)]

NoQuery == [json |-> None, term |-> None, result |-> None]

Session_new ==
    [phase |-> "handshake", peer |-> "up", hello |-> None, handshake |-> NoHandshake,
     inq |-> <<>>, cur |-> None, resp |-> None, out |-> <<>>,
     served |-> <<>>, closed_by |-> None, active_queries |-> {}]

\* ------------------------------------------------------------- scaling.rs
\* Utilizations are f32 in the code; the model keeps them as whole percents
\* and computes the one quotient that is rounded up exactly.
HorizontalScalingConfig(min_replicas, max_replicas) ==
    [min_replicas |-> min_replicas, max_replicas |-> max_replicas,
     target_cpu_utilization |-> 70, target_memory_utilization |-> 80,
     custom_metrics |-> <<>>]

ResourceMetrics(cpu_utilization, memory_utilization) ==
    [cpu_utilization |-> cpu_utilization, memory_utilization |-> memory_utilization,
     queries_per_second |-> 0, active_connections |-> 0, replication_lag |-> 0]

ScaleUp(amount) == [kind |-> "ScaleUp", amount |-> amount]
ScaleDown(amount) == [kind |-> "ScaleDown", amount |-> amount]
NoAction == [kind |-> "NoAction", amount |-> 0]

\* held: the decisions evaluate has returned to callers that have not yet
\* passed them to apply_scaling.
AutoScaler_new(config) ==
    [config |-> config, current_replicas |-> config.min_replicas,
     metrics |-> ResourceMetrics(0, 0), held |-> <<>>]

check_custom_metrics(config, metrics) ==
    \E i \in 1..Len(config.custom_metrics) :
        LET custom == config.custom_metrics[i]
        IN /\ custom.name \in {"queries_per_second", "active_connections", "replication_lag"}
           /\ metrics[custom.name] > custom.target_value

SaturatingSub(a, b) == IF a >= b THEN a - b ELSE 0

calculate_scale_amount(current, max_replicas, utilization, target) ==
    LET desired == (current * utilization + target - 1) \div target
        room == max_replicas - current
        by == SaturatingSub(desired, current)
        scale_by == IF by <= room THEN by ELSE room
    IN IF scale_by >= 1 THEN scale_by ELSE 1

evaluate_horizontal(config, metrics, current_replicas) ==
    LET cpu_pressure == metrics.cpu_utilization > config.target_cpu_utilization
        memory_pressure == metrics.memory_utilization > config.target_memory_utilization
        custom_pressure == check_custom_metrics(config, metrics)
    IN IF cpu_pressure \/ memory_pressure \/ custom_pressure
       THEN IF current_replicas < config.max_replicas
            THEN ScaleUp(calculate_scale_amount(current_replicas, config.max_replicas,
                                                metrics.cpu_utilization,
                                                config.target_cpu_utilization))
            ELSE NoAction
       ELSE IF /\ 2 * metrics.cpu_utilization < config.target_cpu_utilization
               /\ 2 * metrics.memory_utilization < config.target_memory_utilization
       THEN IF current_replicas > config.min_replicas THEN ScaleDown(1) ELSE NoAction
       ELSE NoAction

apply_scaling(current_replicas, decision) ==
    IF decision.kind = "ScaleUp" THEN current_replicas + decision.amount
    ELSE IF decision.kind = "ScaleDown" THEN SaturatingSub(current_replicas, decision.amount)
    ELSE current_replicas

MinReplicas == 3
MaxReplicas == 5

\* ------------------------------------------------------------- state
\* cp.pc is where the compact() call stands, cp.mappings the snapshot of
\* the index it took, cp.start the writers' positions when it took it,
\* cp.acked the mappings of the write_batch calls that returned between
\* the snapshot and the end of the call, cp.runs the calls finished.
NoCompaction ==
    [pc |-> "idle", mappings |-> <<>>, start |-> <<>>, acked |-> {}, runs |-> 0]

VARIABLES
    open,          \* a SlabStorage is open on the directory
    compression,   \* the codec the store is opened with
    size_classes,  \* SlabAllocator.size_classes
    files,         \* the slot files: SlotId -> <<length>> \o payload
    meta,          \* MetadataStore: index, next_sequence; metadata.log, synced
    cache,         \* SlabCache
    last,          \* the last call and what it returned
    exp,           \* key -> value of its last successful set, None once the
                   \*        key is set with an error or deleted
    hist,          \* what the calls so far have been
    batches,       \* the batches appended to the log: [start, batch]
    tamper,        \* a payload cell of the log was flipped: [ever, frame]
    pc,            \* thread -> where it is in its call
    tl,            \* thread -> the locals of its call
    eng,           \* what the last scan_table returned: [docs, keys]
    sess,          \* one client connection and its session
    ev,            \* one query on its way through the compiler and the executor
    cp,            \* a compact() call side by side with the writers
    scaler         \* the AutoScaler and the decisions its callers hold

vars == <<open, compression, size_classes, files, meta, cache, last,
          exp, hist, batches, tamper, pc, tl, eng, sess, ev, cp, scaler>>

St == [scs |-> size_classes, files |-> files, meta |-> meta,
       cache |-> cache, compression |-> compression]

Install(st) ==
    /\ size_classes' = st.scs
    /\ files' = st.files
    /\ meta' = st.meta
    /\ cache' = st.cache
    /\ compression' = st.compression

\* old: the slot the index held for the key when the call began;
\* cached: the cache held the key when the call began.
Call(op, key, ok, old, cached) ==
    [op |-> op, key |-> key, ok |-> ok, old |-> old, cached |-> cached]

NoExp == [k \in Keys |-> None]

Init ==
    /\ open = TRUE
    /\ compression \in Algorithms
    /\ size_classes = SlabAllocator_new
    /\ files = EmptyMap
    /\ meta = [index |-> EmptyMap, next_sequence |-> 0, log |-> <<>>, synced |-> 0]
    /\ cache = SlabCache_new
    /\ last = Call("open", 0, TRUE, None, FALSE)
    /\ exp = NoExp
    /\ hist = [noErr |-> TRUE, noDelete |-> TRUE, calls |-> 0, opens |-> 0]
    /\ batches = <<>>
    /\ tamper = [ever |-> FALSE, frame |-> 0]
    /\ pc = [t \in Threads |-> "idle"]
    /\ tl = [t \in Threads |-> [sequence |-> 0, mappings |-> <<>>]]
    /\ eng = [docs |-> <<>>, keys |-> <<>>]
    /\ sess = Session_new
    /\ ev = NoQuery
    /\ cp = NoCompaction
    /\ scaler = AutoScaler_new(HorizontalScalingConfig(MinReplicas, MaxReplicas))

Get(k) ==
    /\ open
    /\ LET r == SlabStorage_get(St, k)
       IN /\ Install(r.st)
          /\ last' = Call("get", k, r.ok, None, FALSE)
    /\ UNCHANGED <<open, exp, hist, batches, tamper, pc, tl, eng, sess, ev, cp, scaler>>

Set(k, v) ==
    /\ open
    /\ hist.calls < MaxCalls
    /\ LET r == SlabStorage_set(St, k, v)
       IN /\ Install(r.st)
          /\ last' = Call("set", k, r.ok, r.old, CachePos(cache, k) # {})
          /\ exp' = [exp EXCEPT ![k] = IF r.ok THEN Some(v) ELSE None]
          /\ hist' = [hist EXCEPT !.noErr = @ /\ r.ok, !.calls = @ + 1]
          /\ batches' = IF r.ok
                        THEN Append(batches,
                                    [start |-> Len(meta.log) + 1,
                                     batch |-> MetadataBatch_new(meta.next_sequence,
                                                                 << <<k, r.slot[1]>> >>)])
                        ELSE batches
    /\ UNCHANGED <<open, tamper, pc, tl, eng, sess, ev, cp, scaler>>

Delete(k) ==
    /\ open
    /\ hist.calls < MaxCalls
    /\ LET r == SlabStorage_delete(St, k)
       IN /\ Install(r.st)
          /\ last' = Call("delete", k, r.ok, r.old, CachePos(cache, k) # {})
          /\ hist' = [hist EXCEPT !.noDelete = FALSE, !.noErr = @ /\ r.ok,
                                  !.calls = @ + 1]
    /\ exp' = [exp EXCEPT ![k] = None]
    /\ UNCHANGED <<open, batches, tamper, pc, tl, eng, sess, ev, cp, scaler>>

Flush ==
    /\ open
    /\ Install(SlabStorage_flush(St))
    /\ last' = Call("flush", 0, TRUE, None, FALSE)
    /\ UNCHANGED <<open, exp, hist, batches, tamper, pc, tl, eng, sess, ev, cp, scaler>>

CompactMetadata ==
    /\ open
    /\ hist.calls < MaxCalls
    /\ \E order \in Orders(DOMAIN meta.index) :
          /\ Install(SlabStorage_compact_metadata(St, order))
          /\ batches' = << [start |-> 1,
                            batch |-> MetadataBatch_new(0, SnapshotMappings(meta.index, order))] >>
    /\ last' = Call("compact", 0, TRUE, None, FALSE)
    /\ hist' = [hist EXCEPT !.calls = @ + 1]
    /\ UNCHANGED <<open, exp, tamper, pc, tl, eng, sess, ev, cp, scaler>>

\* Dropping the SlabStorage: the files stay, the memory goes.
Close ==
    /\ open
    /\ hist.opens < MaxOpens
    /\ open' = FALSE
    /\ size_classes' = SlabAllocator_new
    /\ meta' = [meta EXCEPT !.index = EmptyMap, !.next_sequence = 0]
    /\ cache' = SlabCache_new
    /\ last' = Call("close", 0, TRUE, None, FALSE)
    /\ UNCHANGED <<compression, files, exp, hist, batches, tamper, pc, tl, eng, sess, ev, cp, scaler>>

Open ==
    /\ ~open
    /\ LET r == SlabStorage_with_options(St)
       IN /\ open' = r.ok
          /\ Install(IF r.ok THEN r.st ELSE St)
          /\ last' = Call("open", 0, r.ok, None, FALSE)
    /\ hist' = [hist EXCEPT !.opens = @ + 1]
    /\ UNCHANGED <<exp, batches, tamper, pc, tl, eng, sess, ev, cp, scaler>>

Next ==
    \/ \E k \in Keys : Get(k)
    \/ \E k \in Keys, v \in Values : Set(k, v)
    \/ \E k \in Keys : Delete(k)
    \/ Flush
    \/ CompactMetadata
    \/ Close
    \/ Open

Spec == Init /\ [][Next]_vars

\* ------------------------------------------------------------- the metadata store alone
\* MetadataStore driven directly, as its unit tests drive it, with the log
\* open to damage while no store is open.
MetaSlots == {SlotId_new(0, 0), SlotId_new(0, SizeTable[1])}

WriteBatch(k, slot) ==
    /\ open
    /\ Len(batches) < MaxBatches
    /\ meta' = MetadataStore_write_batch(meta, << <<k, slot>> >>)
    /\ batches' = Append(batches,
                         [start |-> Len(meta.log) + 1,
                          batch |-> MetadataBatch_new(meta.next_sequence, << <<k, slot>> >>)])
    /\ last' = Call("write_batch", k, TRUE, MetadataStore_get(meta.index, k), FALSE)
    /\ UNCHANGED <<open, compression, size_classes, files, cache, exp, hist, tamper, pc, tl, eng, sess, ev, cp, scaler>>

MetaRemove(k) ==
    /\ open
    /\ k \in DOMAIN meta.index
    /\ meta' = MetadataStore_remove(meta, k)
    /\ last' = Call("remove", k, TRUE, MetadataStore_get(meta.index, k), FALSE)
    /\ UNCHANGED <<open, compression, size_classes, files, cache, exp, hist, batches,
                   tamper, pc, tl, eng, sess, ev, cp, scaler>>

MetaCompact ==
    /\ open
    /\ hist.calls < MaxCalls
    /\ \E order \in Orders(DOMAIN meta.index) :
          /\ meta' = MetadataStore_compact(meta, order)
          /\ batches' = << [start |-> 1,
                            batch |-> MetadataBatch_new(0, SnapshotMappings(meta.index, order))] >>
    /\ last' = Call("compact", 0, TRUE, None, FALSE)
    /\ hist' = [hist EXCEPT !.calls = @ + 1]
    /\ tamper' = [tamper EXCEPT !.frame = 0]
    /\ UNCHANGED <<open, compression, size_classes, files, cache, exp, pc, tl, eng, sess, ev, cp, scaler>>

MetaClose ==
    /\ open
    /\ hist.opens < MaxOpens
    /\ open' = FALSE
    /\ meta' = [meta EXCEPT !.index = EmptyMap, !.next_sequence = 0]
    /\ last' = Call("close", 0, TRUE, None, FALSE)
    /\ UNCHANGED <<compression, size_classes, files, cache, exp, hist, batches,
                   tamper, pc, tl, eng, sess, ev, cp, scaler>>

\* One cell of one batch's JSON payload in metadata.log is changed on disk.
FlipPayloadByte(f, i, mask) ==
    /\ ~open
    /\ ~tamper.ever
    /\ f \in 1..Len(batches)
    /\ i \in 1..meta.log[batches[f].start]
    /\ meta' = [meta EXCEPT !.log[batches[f].start + i] = Xor(@, mask)]
    /\ tamper' = [ever |-> TRUE, frame |-> f]
    /\ last' = Call("flip", 0, TRUE, None, FALSE)
    /\ UNCHANGED <<open, compression, size_classes, files, cache, exp, hist, batches,
                   pc, tl, eng, sess, ev, cp, scaler>>

\* MetadataStore::new
MetaOpen ==
    /\ ~open
    /\ LET r == MetadataStore_recover(meta.log)
       IN /\ open' = r.ok
          /\ meta' = IF r.ok
                     THEN [meta EXCEPT !.index = r.index, !.next_sequence = r.next_sequence]
                     ELSE meta
          /\ last' = Call("open", 0, r.ok, None, FALSE)
    /\ hist' = [hist EXCEPT !.opens = @ + 1]
    /\ UNCHANGED <<compression, size_classes, files, cache, exp, batches, tamper, pc, tl, eng, sess, ev, cp, scaler>>

MetaNext ==
    \/ \E k \in Keys, slot \in MetaSlots : WriteBatch(k, slot)
    \/ \E k \in Keys : MetaRemove(k)
    \/ MetaCompact
    \/ MetaClose
    \/ \E f \in 1..MaxBatches, i \in 1..(3 + 3 * NKeys), mask \in FlipMasks :
           FlipPayloadByte(f, i, mask)
    \/ MetaOpen

MetaSpec == Init /\ [][MetaNext]_vars

\* ------------------------------------------------------------- a torn log
\* The metadata store as above, and a crash in the middle of an append:
\* while the store is closed, metadata.log loses cells off the end of its
\* last frame, the length prefix staying whole.  tamper.cut is the number
\* of cells lost.
TruncateTail(n) ==
    /\ ~open
    /\ ~tamper.ever
    /\ batches # <<>>
    /\ n \in 1..(meta.log[batches[Len(batches)].start] + 1)
    /\ meta' = [meta EXCEPT !.log = SubSeq(@, 1, Len(@) - n)]
    /\ tamper' = [ever |-> TRUE, frame |-> 0, cut |-> n]
    /\ last' = Call("truncate", 0, TRUE, None, FALSE)
    /\ UNCHANGED <<open, compression, size_classes, files, cache, exp, hist, batches,
                   pc, tl, eng, sess, ev, cp, scaler>>

\* An open that failed is not tried again.
RecoverNext ==
    \/ \E k \in Keys, slot \in MetaSlots : WriteBatch(k, slot)
    \/ \E k \in Keys : MetaRemove(k)
    \/ MetaCompact
    \/ MetaClose
    \/ \E n \in 1..(4 + 3 * NKeys) : TruncateTail(n)
    \/ (last.op # "open" /\ MetaOpen)

RecoverSpec == Init /\ [][RecoverNext]_vars

\* ------------------------------------------------------------- concurrent writers
\* Threads run write_batch side by side.  A step is what one lock hold or
\* one file operation does: the sequence number is taken under the
\* next_sequence lock, the frame is appended and synced with no lock held,
\* the index is updated under the index lock.
WbTakeSequence(t, k, slot) ==
    /\ pc[t] = "idle"
    /\ meta.next_sequence < MaxBatches
    /\ tl' = [tl EXCEPT ![t] = [sequence |-> meta.next_sequence,
                                mappings |-> << <<k, slot>> >>]]
    /\ meta' = [meta EXCEPT !.next_sequence = @ + 1]
    /\ pc' = [pc EXCEPT ![t] = "append"]
    /\ UNCHANGED <<open, compression, size_classes, files, cache, last, exp, hist,
                   batches, tamper, eng, sess, ev, cp, scaler>>

WbAppend(t) ==
    /\ pc[t] = "append"
    /\ meta' = LogAppend(meta, to_bytes(MetadataBatch_new(tl[t].sequence, tl[t].mappings)))
    /\ batches' = Append(batches,
                         [start |-> Len(meta.log) + 1,
                          batch |-> MetadataBatch_new(tl[t].sequence, tl[t].mappings)])
    /\ pc' = [pc EXCEPT ![t] = "index"]
    /\ UNCHANGED <<open, compression, size_classes, files, cache, last, exp, hist,
                   tamper, tl, eng, sess, ev, cp, scaler>>

WbUpdateIndex(t) ==
    /\ pc[t] = "index"
    /\ meta' = [meta EXCEPT !.index = ApplyMappings(@, tl[t].mappings)]
    /\ pc' = [pc EXCEPT ![t] = "idle"]
    /\ last' = Call("write_batch", tl[t].mappings[1][1], TRUE, None, FALSE)
    /\ UNCHANGED <<open, compression, size_classes, files, cache, exp, hist,
                   batches, tamper, tl, eng, sess, ev, cp, scaler>>

ConcNext ==
    \/ \E t \in Threads, k \in Keys, slot \in MetaSlots : WbTakeSequence(t, k, slot)
    \/ \E t \in Threads : WbAppend(t)
    \/ \E t \in Threads : WbUpdateIndex(t)

ConcSpec == Init /\ [][ConcNext]_vars

\* ------------------------------------------------------------- compaction beside writers
\* MetadataStore::compact in the steps other threads can come between:
\* the clone of the index under its read lock, the rename of the synced
\* temp file over metadata.log, the reset of next_sequence under its
\* write lock.  The writers are those of the section above.
MaxCompactions == 1

CompactSnapshot ==
    /\ cp.pc = "idle"
    /\ cp.runs < MaxCompactions
    /\ \E order \in Orders(DOMAIN meta.index) :
          cp' = [cp EXCEPT !.pc = "rename",
                           !.mappings = SnapshotMappings(meta.index, order),
                           !.start = <<[pc |-> pc, tl |-> tl]>>,
                           !.acked = {}]
    /\ UNCHANGED <<open, compression, size_classes, files, meta, cache, last, exp, hist,
                   batches, tamper, pc, tl, eng, sess, ev, scaler>>

CompactRename ==
    /\ cp.pc = "rename"
    /\ LET bytes == to_bytes(MetadataBatch_new(0, cp.mappings))
       IN meta' = [meta EXCEPT !.log = bytes, !.synced = Len(bytes)]
    /\ batches' = << [start |-> 1, batch |-> MetadataBatch_new(0, cp.mappings)] >>
    /\ cp' = [cp EXCEPT !.pc = "reset"]
    /\ UNCHANGED <<open, compression, size_classes, files, cache, last, exp, hist,
                   tamper, pc, tl, eng, sess, ev, scaler>>

\* The writers whose call returned since the snapshot: idle now, and then
\* either in a call or before the call whose batch tl[t] holds now.
ReturnedSince(start) ==
    { t \in Threads : /\ pc[t] = "idle"
                      /\ tl[t].mappings # <<>>
                      /\ (start.pc[t] # "idle" \/ start.tl[t] # tl[t]) }

CompactReset ==
    /\ cp.pc = "reset"
    /\ meta' = [meta EXCEPT !.next_sequence = 1]
    /\ cp' = [cp EXCEPT !.pc = "idle", !.runs = @ + 1,
                        !.acked = { tl[t].mappings[1] : t \in ReturnedSince(cp.start[1]) }]
    /\ last' = Call("compact", 0, TRUE, None, FALSE)
    /\ UNCHANGED <<open, compression, size_classes, files, cache, exp, hist,
                   batches, tamper, pc, tl, eng, sess, ev, scaler>>

\* Writers start calls until the last compact() call has finished.
CompactNext ==
    \/ /\ cp.runs < MaxCompactions
       /\ \E t \in Threads, k \in Keys, slot \in MetaSlots : WbTakeSequence(t, k, slot)
    \/ \E t \in Threads : WbAppend(t)
    \/ \E t \in Threads : WbUpdateIndex(t)
    \/ CompactSnapshot
    \/ CompactRename
    \/ CompactReset

CompactSpec == Init /\ [][CompactNext]_vars

\* ------------------------------------------ storage.rs: calls side by side
\* SlabStorage is shared behind &self: every component takes its own lock for
\* one call only (cache Mutex, index RwLock, size-class Mutex), so a set, get
\* or delete of one thread is a run of steps between which the other thread
\* may take steps of its own. pc[t] is the step thread t is about to take and
\* tl[t] holds the locals of its call.
RaceValues == {<<1>>, <<1, 2>>}

\* clean: no other set or delete of the key overlapped this call;
\* want: the value the last set of the key had returned when this get began;
\* allowed: the values of the sets of the key that began during this get.
RaceCall(op, key, value) ==
    [op |-> op, key |-> key, value |-> value, data |-> <<>>, old |-> None,
     seen |-> 0, freed |-> FALSE, slot |-> None, clean |-> TRUE, want |-> None,
     allowed |-> {}, val |-> None, ok |-> TRUE, done |-> FALSE]

InCall(t) == "op" \in DOMAIN tl[t]

Writing(t, k) == InCall(t) /\ ~tl[t].done /\ tl[t].op \in {"set", "delete"} /\ tl[t].key = k

Reading(t, k) == InCall(t) /\ ~tl[t].done /\ tl[t].op = "get" /\ tl[t].key = k

\* What a writer's arrival does to the calls of the same key in flight.
Overlap(t, k, value) ==
    [u \in Threads |->
        IF u = t THEN tl[u]
        ELSE IF Writing(u, k) THEN [tl[u] EXCEPT !.clean = FALSE]
        ELSE IF Reading(u, k)
        THEN IF value = None THEN [tl[u] EXCEPT !.want = None]
             ELSE [tl[u] EXCEPT !.allowed = @ \cup {value[1]}]
        ELSE tl[u]]

Return(t, ok, val) ==
    /\ pc' = [pc EXCEPT ![t] = "idle"]
    /\ tl' = [tl EXCEPT ![t].ok = ok, ![t].val = val, ![t].done = TRUE]
    /\ last' = Call(tl[t].op, tl[t].key, ok, tl[t].old, FALSE)

RaceRest == <<open, compression, hist, batches, tamper, eng, sess, ev, cp, scaler>>

\* set, storage.rs:109-114: compress, then look the key up in the index.
SetStart(t, k, v) ==
    /\ open /\ pc[t] = "idle" /\ hist.calls < MaxCalls
    /\ LET compressed == compress(v, compression)
           others == \E u \in Threads \ {t} : Writing(u, k)
       IN /\ compressed.ok
          /\ tl' = [Overlap(t, k, Some(v)) EXCEPT ![t] =
                       [RaceCall("set", k, v) EXCEPT
                           !.data = compressed.data,
                           !.old = MetadataStore_get(meta.index, k),
                           !.seen = meta.next_sequence,
                           !.clean = ~others]]
    /\ pc' = [pc EXCEPT ![t] = "free"]
    /\ exp' = [exp EXCEPT ![k] = None]
    /\ hist' = [hist EXCEPT !.calls = @ + 1]
    /\ UNCHANGED <<open, compression, size_classes, files, meta, cache, last, batches, tamper, eng, sess, ev, cp, scaler>>

\* storage.rs:114-117: free the old slot.
SetFree(t) ==
    /\ pc[t] = "free" /\ tl[t].op = "set"
    /\ IF tl[t].old = None
       THEN /\ pc' = [pc EXCEPT ![t] = "allocate"]
            /\ UNCHANGED <<size_classes, tl, last>>
       ELSE LET fr == SlabAllocator_free(size_classes, tl[t].old[1])
            IN IF fr.ok
               THEN /\ size_classes' = fr.scs
                    /\ pc' = [pc EXCEPT ![t] = "allocate"]
                    /\ tl' = [tl EXCEPT ![t].freed = TRUE]
                    /\ UNCHANGED last
               ELSE /\ Return(t, FALSE, None)
                    /\ UNCHANGED size_classes
    /\ UNCHANGED <<files, meta, cache, exp>>
    /\ UNCHANGED RaceRest

\* storage.rs:120: allocate the new slot.
SetAllocate(t) ==
    /\ pc[t] = "allocate"
    /\ LET al == SlabAllocator_allocate(size_classes, Len(tl[t].data))
       IN IF al.ok
          THEN /\ size_classes' = al.scs
               /\ pc' = [pc EXCEPT ![t] = "write"]
               /\ tl' = [tl EXCEPT ![t].slot = al.slot]
               /\ UNCHANGED last
          ELSE /\ Return(t, FALSE, None)
               /\ UNCHANGED size_classes
    /\ UNCHANGED <<files, meta, cache, exp>>
    /\ UNCHANGED RaceRest

\* storage.rs:123: write the compressed bytes into the slot.
SetWrite(t) ==
    /\ pc[t] = "write"
    /\ LET wr == SlabAllocator_write(files, size_classes, tl[t].slot[1], tl[t].data)
       IN IF wr.ok
          THEN /\ files' = wr.files
               /\ pc' = [pc EXCEPT ![t] = "write_batch"]
               /\ UNCHANGED <<tl, last>>
          ELSE /\ Return(t, FALSE, None)
               /\ UNCHANGED files
    /\ UNCHANGED <<size_classes, meta, cache, exp>>
    /\ UNCHANGED RaceRest

\* storage.rs:126-127: log the mapping and publish it in the index.
SetWriteBatch(t) ==
    /\ pc[t] = "write_batch"
    /\ meta' = MetadataStore_write_batch(meta, << <<tl[t].key, tl[t].slot[1]>> >>)
    /\ pc' = [pc EXCEPT ![t] = "invalidate"]
    /\ UNCHANGED <<size_classes, files, cache, exp, tl, last>>
    /\ UNCHANGED RaceRest

\* storage.rs:130 and :151: drop the key from the cache and return.
Invalidate(t) ==
    /\ pc[t] = "invalidate"
    /\ cache' = SlabCache_remove(cache, tl[t].key)
    /\ Return(t, TRUE, None)
    /\ exp' = [exp EXCEPT ![tl[t].key] =
                  IF tl[t].op = "set" /\ tl[t].clean THEN Some(tl[t].value) ELSE None]
    /\ UNCHANGED <<size_classes, files, meta>>
    /\ UNCHANGED RaceRest

\* delete, storage.rs:137-142: look the key up; an absent key returns at once.
DeleteStart(t, k) ==
    /\ open /\ pc[t] = "idle" /\ hist.calls < MaxCalls
    /\ LET old == MetadataStore_get(meta.index, k)
           call == [RaceCall("delete", k, <<>>) EXCEPT !.old = old,
                                                      !.seen = meta.next_sequence,
                                                      !.clean = FALSE]
       IN IF old = None
          THEN /\ tl' = [Overlap(t, k, None) EXCEPT ![t] = [call EXCEPT !.done = TRUE]]
               /\ pc' = pc
               /\ last' = Call("delete", k, TRUE, None, FALSE)
          ELSE /\ tl' = [Overlap(t, k, None) EXCEPT ![t] = call]
               /\ pc' = [pc EXCEPT ![t] = "release"]
               /\ UNCHANGED last
    /\ exp' = [exp EXCEPT ![k] = None]
    /\ hist' = [hist EXCEPT !.calls = @ + 1, !.noDelete = FALSE]
    /\ UNCHANGED <<open, compression, size_classes, files, meta, cache, batches, tamper, eng, sess, ev, cp, scaler>>

\* storage.rs:145: free the slot.
DeleteFree(t) ==
    /\ pc[t] = "release"
    /\ LET fr == SlabAllocator_free(size_classes, tl[t].old[1])
       IN IF fr.ok
          THEN /\ size_classes' = fr.scs
               /\ pc' = [pc EXCEPT ![t] = "remove"]
               /\ tl' = [tl EXCEPT ![t].freed = TRUE]
               /\ UNCHANGED last
          ELSE /\ Return(t, FALSE, None)
               /\ UNCHANGED size_classes
    /\ UNCHANGED <<files, meta, cache, exp>>
    /\ UNCHANGED RaceRest

\* storage.rs:148: take the key out of the index.
DeleteRemove(t) ==
    /\ pc[t] = "remove"
    /\ meta' = MetadataStore_remove(meta, tl[t].key)
    /\ pc' = [pc EXCEPT ![t] = "invalidate"]
    /\ UNCHANGED <<size_classes, files, cache, exp, tl, last>>
    /\ UNCHANGED RaceRest

\* get, storage.rs:86-88: a cache hit is returned as it is.
GetStart(t, k) ==
    /\ open /\ pc[t] = "idle" /\ hist.calls < MaxCalls
    /\ LET c == SlabCache_get(cache, k)
           call == [RaceCall("get", k, <<>>) EXCEPT !.want = exp[k]]
       IN /\ cache' = c.cache
          /\ IF c.hit # None
             THEN /\ tl' = [tl EXCEPT ![t] = [call EXCEPT !.val = Some(c.hit[1].data),
                                                          !.done = TRUE]]
                  /\ pc' = pc
                  /\ last' = Call("get", k, TRUE, None, TRUE)
             ELSE /\ tl' = [tl EXCEPT ![t] = call]
                  /\ pc' = [pc EXCEPT ![t] = "lookup"]
                  /\ UNCHANGED last
    /\ hist' = [hist EXCEPT !.calls = @ + 1]
    /\ UNCHANGED <<open, compression, size_classes, files, meta, exp, batches, tamper, eng, sess, ev, cp, scaler>>

\* storage.rs:91-94: the slot the index holds for the key.
GetLookup(t) ==
    /\ pc[t] = "lookup"
    /\ LET slot_id == MetadataStore_get(meta.index, tl[t].key)
       IN IF slot_id = None
          THEN /\ Return(t, TRUE, None)
          ELSE /\ pc' = [pc EXCEPT ![t] = "read"]
               /\ tl' = [tl EXCEPT ![t].slot = slot_id]
               /\ UNCHANGED last
    /\ UNCHANGED <<size_classes, files, meta, cache, exp>>
    /\ UNCHANGED RaceRest

\* storage.rs:97-100: read the slot and decompress.
GetRead(t) ==
    /\ pc[t] = "read"
    /\ LET rd == SlabAllocator_read(files, size_classes, tl[t].slot[1])
           data == decompress(rd.data, compression)
       IN IF rd.ok /\ data.ok
          THEN /\ pc' = [pc EXCEPT ![t] = "put"]
               /\ tl' = [tl EXCEPT ![t].data = data.data]
               /\ UNCHANGED last
          ELSE /\ Return(t, FALSE, None)
    /\ UNCHANGED <<size_classes, files, meta, cache, exp>>
    /\ UNCHANGED RaceRest

\* storage.rs:103-105: keep the value in the cache and return it.
GetPut(t) ==
    /\ pc[t] = "put"
    /\ cache' = SlabCache_put(cache, tl[t].key, tl[t].slot[1], tl[t].data)
    /\ Return(t, TRUE, Some(tl[t].data))
    /\ UNCHANGED <<size_classes, files, meta, exp>>
    /\ UNCHANGED RaceRest

RaceNext ==
    \/ \E t \in Threads, k \in Keys, v \in RaceValues : SetStart(t, k, v)
    \/ \E t \in Threads : SetFree(t)
    \/ \E t \in Threads : SetAllocate(t)
    \/ \E t \in Threads : SetWrite(t)
    \/ \E t \in Threads : SetWriteBatch(t)
    \/ \E t \in Threads : Invalidate(t)
    \/ \E t \in Threads, k \in Keys : DeleteStart(t, k)
    \/ \E t \in Threads : DeleteFree(t)
    \/ \E t \in Threads : DeleteRemove(t)
    \/ \E t \in Threads, k \in Keys : GetStart(t, k)
    \/ \E t \in Threads : GetLookup(t)
    \/ \E t \in Threads : GetRead(t)
    \/ \E t \in Threads : GetPut(t)

RaceSpec == Init /\ [][RaceNext]_vars

\* ------------------------------------------------------------- the namespace engine
\* SlabStorageEngine::with_defaults over a new directory: zstd, and slot
\* sizes wide enough for every record the engine writes.
EngineMinSlotSize == 24
EngineMaxSlotSize == 29
EngineSizes == calculate_size_classes(EngineMinSlotSize, EngineMaxSlotSize)

\* The names the calls are made with ("a" and "1"), the one database
\* tables are made in, the one table documents are put in.
Names == {<<Ch.letter>>, <<Ch.digit>>}
PrimaryKeys == {<<Ch.letter>>, <<Ch.digit>>}
TheDb == <<Ch.letter>>
TheTable == <<Ch.letter>>

EngineInit ==
    /\ open = TRUE
    /\ compression = "Zstd"
    /\ size_classes = [c \in 0..(Len(EngineSizes) - 1) |-> SizeClass_new(c, EngineSizes[c + 1])]
    /\ files = EmptyMap
    /\ meta = [index |-> EmptyMap, next_sequence |-> 0, log |-> <<>>, synced |-> 0]
    /\ cache = SlabCache_new
    /\ last = Call("open", <<>>, TRUE, None, FALSE)
    /\ exp = NoExp
    /\ hist = [noErr |-> TRUE, noDelete |-> TRUE, calls |-> 0, opens |-> 0]
    /\ batches = <<>>
    /\ tamper = [ever |-> FALSE, frame |-> 0]
    /\ pc = [t \in Threads |-> "idle"]
    /\ tl = [t \in Threads |-> [sequence |-> 0, mappings |-> <<>>]]
    /\ eng = [docs |-> <<>>, keys |-> <<>>]
    /\ sess = Session_new
    /\ ev = NoQuery
    /\ cp = NoCompaction
    /\ scaler = AutoScaler_new(HorizontalScalingConfig(MinReplicas, MaxReplicas))

\* The slot the index holds for a key before a call.
Before(key) == MetadataStore_get(meta.index, KeyCode(key))

EngineCall(op, args, r, old) ==
    /\ Install(r.st)
    /\ last' = Call(op, args, r.ok, old, FALSE)
    /\ hist' = [hist EXCEPT !.calls = @ + 1]
    /\ UNCHANGED <<open, exp, batches, tamper, pc, tl, eng, sess, ev, cp, scaler>>

CreateDatabase(name) ==
    /\ hist.calls < MaxCalls
    /\ EngineCall("create_database", name, create_database(St, name),
                  Before(DatabaseKey(name)))

DropDatabase(name) ==
    /\ hist.calls < MaxCalls
    /\ \E order \in Orders(DOMAIN meta.index \ {KeyCode(DatabaseKey(name))}) :
          EngineCall("drop_database", name, drop_database(St, name, order),
                     Before(DatabaseKey(name)))

CreateTable(db, table, primary_key) ==
    /\ hist.calls < MaxCalls
    /\ EngineCall("create_table", <<db, table>>, create_table(St, db, table, primary_key),
                  Before(TableKey(db, table)))

DropTable(db, table) ==
    /\ hist.calls < MaxCalls
    /\ EngineCall("drop_table", <<db, table>>, drop_table(St, db, table),
                  Before(TableKey(db, table)))

\* StorageEngine::set with a document key: how a document gets into a table.
SetDocument(db, table, pk) ==
    /\ hist.calls < MaxCalls
    /\ EngineCall("set", DocPrefix(db, table) \o pk,
                  Engine_set(St, DocPrefix(db, table) \o pk, DNumber(KeyCode(pk))),
                  Before(DocPrefix(db, table) \o pk))

ScanTable(db, table) ==
    /\ \E order \in Orders(DOMAIN meta.index) :
          LET r == scan_table(St, db, table, order)
          IN /\ Install(r.st)
             /\ last' = Call("scan_table", <<db, table>>, r.ok, None, FALSE)
             /\ eng' = [docs |-> r.docs, keys |-> r.keys]
    /\ UNCHANGED <<open, exp, hist, batches, tamper, pc, tl, sess, ev, cp, scaler>>

EngineNext ==
    \/ \E name \in Names : CreateDatabase(name)
    \/ \E name \in Names : DropDatabase(name)
    \/ \E table \in Names : CreateTable(TheDb, table, <<Ch.letter>>)
    \/ \E table \in Names : DropTable(TheDb, table)
    \/ \E pk \in PrimaryKeys : SetDocument(TheDb, TheTable, pk)
    \/ ScanTable(TheDb, TheTable)

EngineSpec == EngineInit /\ [][EngineNext]_vars

\* ------------------------------------------------------------- one client session
\* ConnectionHandler::handle, one step per await point: the handshake,
\* then read_query / handle_query / write_response in a loop.  sess.inq
\* holds the frames the client has sent and the server has not read,
\* sess.out the responses written to the stream, sess.served the frames
\* read_query returned, in order, sess.closed_by the frame read_query
\* failed on.
MaxRequests == 3
MaxTokens == 2
SmallFrame == 16
Tokens == 1..MaxTokens

JNum(n) == <<0, n>>
JArr(xs) == <<2, xs>>
DivTag == 23

StartQuery(term) == [type |-> Some("START"), query |-> Some(term)]
Queries ==
    { StartQuery(JNum(5)),
      StartQuery(JArr(<<>>)),
      StartQuery(JArr(<<JNum(DivTag), JArr(<<JNum(6), JNum(0)>>)>>)),
      StartQuery(JArr(<<JNum(DivTag), JArr(<<JNum(6), JNum(2)>>)>>)),
      [type |-> Some("START"), query |-> None],
      [type |-> Some("STOP"), query |-> None],
      [type |-> Some("BOGUS"), query |-> None],
      [type |-> None, query |-> None] }

Frame(size, token, valid, query) ==
    [size |-> size, token |-> token, valid |-> valid, query |-> query, cancels |-> 0]

Frames ==
    { Frame(SmallFrame, token, TRUE, query) : token \in Tokens, query \in Queries }
      \cup { Frame(0, 1, FALSE, StartQuery(JNum(5))),
             Frame(SmallFrame, 1, FALSE, StartQuery(JNum(5))),
             Frame(MAX_MESSAGE_SIZE, 1, TRUE, StartQuery(JNum(5))),
             Frame(MAX_MESSAGE_SIZE + 1, 1, TRUE, StartQuery(JNum(5))) }

Hello(version_magic, key_len, protocol_magic) ==
    [version_magic |-> version_magic, key_len |-> key_len, protocol_magic |-> protocol_magic]

Hellos ==
    { Hello(VERSION_V1_0, 0, PROTOCOL_JSON),
      Hello(VERSION_V0_4, 8, PROTOCOL_JSON),
      Hello(VERSION_V0_3, 0, PROTOCOL_PROTOBUF),
      Hello(VERSION_V0_2, 0, PROTOCOL_JSON),
      Hello(VERSION_V0_1, 0, PROTOCOL_JSON),
      Hello(VERSION_V1_0, MaxAuthKeyLen + 1, PROTOCOL_JSON),
      Hello(VERSION_V1_0, 0, 0),
      Hello(0, 0, PROTOCOL_JSON) }

SessStep(next) ==
    /\ sess' = next
    /\ UNCHANGED <<open, compression, size_classes, files, meta, cache, last,
                   exp, hist, batches, tamper, pc, tl, eng, ev, cp, scaler>>

\* The frames the client has sent so far that the server accepted or has
\* still to read.
Sent == sess.served \o sess.inq

\* The latest START with this token the client has had no response to.
Outstanding(token) ==
    LET starts == { a \in 1..Len(Sent) : /\ a > Len(sess.out)
                                         /\ Sent[a].query.type = Some("START")
                                         /\ Sent[a].token = token }
    IN IF starts = {} THEN 0 ELSE CHOOSE a \in starts : \A b \in starts : b <= a

SessHandshake(hello) ==
    /\ sess.phase = "handshake"
    /\ LET h == Handshake_accept(hello)
       IN SessStep([sess EXCEPT !.hello = Some(hello), !.handshake = h,
                                !.phase = IF h.ok THEN "reading" ELSE "closed"])

ClientSend(frame) ==
    /\ sess.phase \notin {"handshake", "closed"}
    /\ sess.peer = "up"
    /\ Len(Sent) < MaxRequests
    /\ LET cancels == IF frame.query.type = Some("STOP") THEN Outstanding(frame.token) ELSE 0
       IN SessStep([sess EXCEPT !.inq = Append(@, [frame EXCEPT !.cancels = cancels])])

ClientDisconnect ==
    /\ sess.phase \notin {"handshake", "closed"}
    /\ sess.peer = "up"
    /\ SessStep([sess EXCEPT !.peer = "gone"])

SessRead ==
    /\ sess.phase = "reading"
    /\ IF sess.inq = <<>>
       THEN /\ sess.peer = "gone"
            /\ SessStep([sess EXCEPT !.phase = "closed"])
       ELSE LET frame == Head(sess.inq)
                q == read_query(frame)
            IN IF q.ok
               THEN SessStep([sess EXCEPT !.inq = Tail(@),
                                          !.cur = Some([token |-> q.token, query |-> q.query]),
                                          !.served = Append(@, frame),
                                          !.phase = "handling"])
               ELSE SessStep([sess EXCEPT !.inq = Tail(@),
                                          !.closed_by = Some(frame),
                                          !.phase = "closed"])

SessHandle ==
    /\ sess.phase = "handling"
    /\ LET token == sess.cur[1].token
           h == handle_query(sess.active_queries, token, sess.cur[1].query)
       IN IF h.ok
          THEN SessStep([sess EXCEPT !.resp = Some(h.response),
                                     !.active_queries = h.active_queries,
                                     !.phase = "writing"])
          ELSE SessStep([sess EXCEPT !.resp = Some(ErrorResponse(token, h.msg)),
                                     !.phase = "writing"])

\* write_response succeeds while the peer is there; once the peer has
\* gone it may still succeed or fail, and a failure ends the loop.
SessWrite ==
    /\ sess.phase = "writing"
    /\ \/ SessStep([sess EXCEPT !.out = write_response(@, sess.resp[1]),
                                !.cur = None, !.resp = None,
                                !.phase = "reading"])
       \/ /\ sess.peer = "gone"
          /\ SessStep([sess EXCEPT !.phase = "closed"])

SessionNext ==
    \/ \E hello \in Hellos : SessHandshake(hello)
    \/ \E frame \in Frames : ClientSend(frame)
    \/ ClientDisconnect
    \/ SessRead
    \/ SessHandle
    \/ SessWrite

SessionSpec == EngineInit /\ [][SessionNext]_vars

\* ------------------------------------------------------------- one query evaluated
\* QueryCompiler::compile and QueryExecutor::execute on one query term, as
\* handle_start_query calls them: ev.json is the term received, ev.term
\* what compile returned, ev.result what execute returned.
MaxArrayLen == 3

JStr(s) == <<1, s>>
JNull == <<4>>
Elements == {JNum(1), JNum(2), JStr(<<Ch.letter>>), JNull}

Arrays == UNION { [1..n -> Elements] : n \in 0..MaxArrayLen }

Collectors == {TT.Count, TT.Sum, TT.Avg, TT.Min, TT.Max}
Placeholders == {TT.GetAll, TT.Between, TT.Map, TT.OrderBy, TT.Pluck, TT.Group,
                 TT.Reduce, TT.Insert, TT.Update, TT.Delete, TT.GetField, TT.Append,
                 TT.CoerceTo}

\* [op, [[MAKE_ARRAY, items]]]
OnArray(op, items) == JArr(<<JNum(op), JArr(<<JArr(<<JNum(TT.MakeArray), JArr(items)>>)>>)>>)

EvalTerms == { OnArray(op, items) : op \in Collectors \cup Placeholders, items \in Arrays }

EvStep(next) ==
    /\ ev' = next
    /\ UNCHANGED <<open, compression, size_classes, files, meta, cache, last,
                   exp, hist, batches, tamper, pc, tl, eng, sess, cp, scaler>>

EvCompile(json) ==
    /\ ev.json = None \/ ev.result # None \/ ev.term = None
    /\ LET c == compile_term(json)
       IN EvStep([json |-> Some(json),
                  term |-> IF c.ok THEN Some(c.term) ELSE None,
                  result |-> None])

EvExecute ==
    /\ ev.term # None
    /\ ev.result = None
    /\ EvStep([ev EXCEPT !.result = Some(execute_term(ev.term[1]))])

EvalNext ==
    \/ \E json \in EvalTerms : EvCompile(json)
    \/ EvExecute

EvalSpec == EngineInit /\ [][EvalNext]_vars

\* ------------------------------------------------------------- nested terms
\* QueryExecutor::execute on a term tree handed over as a Term: every level of
\* the tree is one execute_term call (a boxed future polled inside the poll
\* of its parent), alive until its arguments have been evaluated.
RecursionLimit == 3
MaxNesting == RecursionLimit + 1

Wrappers == {TT.MakeArray, TT.Count, TT.Sum}

\* ops[1] applied to (ops[2] applied to ( ... leaf)).
RECURSIVE Chain(_, _)
Chain(ops, leaf) ==
    IF ops = <<>> THEN Term_datum(leaf)
    ELSE Term_new(ops[1], <<Chain(Tail(ops), leaf)>>)

NestedTerms ==
    { Chain(ops, leaf) : ops \in UNION { [1..n -> Wrappers] : n \in 0..MaxNesting },
                         leaf \in {DNumber(1), DArray(<<DNumber(2)>>)} }

Deepest(S) == CHOOSE m \in S : \A x \in S : x <= m

\* The levels of the tree: a datum is level 1.
RECURSIVE Nesting(_)
Nesting(term) ==
    IF term.args = <<>> THEN 1
    ELSE 1 + Deepest({Nesting(term.args[i]) : i \in 1..Len(term.args)})

\* The execute_term calls alive at the deepest point of the evaluation of
\* term: the call itself and the deepest argument it gets to evaluate.
RECURSIVE LiveCalls(_)
LiveCalls(term) ==
    IF term.term_type = TT.Datum THEN 1
    ELSE IF term.term_type = TT.MakeArray
    THEN LET reached == {i \in 1..Len(term.args) :
                            \A j \in 1..(i - 1) : execute_term(term.args[j]).ok}
         IN 1 + Deepest({0} \cup {LiveCalls(term.args[i]) : i \in reached})
    ELSE IF term.term_type = TT.Div
    THEN IF Len(term.args) # 2 THEN 1
         ELSE LET a == execute_term(term.args[1])
              IN IF ~a.ok \/ as_number(a.datum) = None THEN 1 + LiveCalls(term.args[1])
                 ELSE 1 + Deepest({LiveCalls(term.args[1]), LiveCalls(term.args[2])})
    ELSE IF term.term_type \in {TT.Count, TT.Sum, TT.Avg, TT.Min, TT.Max}
    THEN 1 + LiveCalls(term.args[1])
    ELSE 1

EvSubmit(term) ==
    /\ ev.term = None \/ ev.result # None
    /\ EvStep([json |-> None, term |-> Some(term), result |-> None])

DepthNext ==
    \/ \E term \in NestedTerms : EvSubmit(term)
    \/ EvExecute

DepthSpec == EngineInit /\ [][DepthNext]_vars

\* ------------------------------------------------------------- the auto-scaler
\* One horizontal AutoScaler shared by its callers (it is handed around in
\* an Arc and every method takes &self): update_metrics, evaluate and
\* apply_scaling are separate calls, and a decision is a value the caller
\* holds between evaluate and apply_scaling.
MaxHeld == 2
Utilizations == {30, 60, 85, 99}

ScaleStep(next) ==
    /\ scaler' = next
    /\ UNCHANGED <<open, compression, size_classes, files, meta, cache, last,
                   exp, hist, batches, tamper, pc, tl, eng, sess, ev, cp>>

UpdateMetrics(cpu, memory) ==
    /\ cpu \in Utilizations /\ memory \in Utilizations
    /\ ScaleStep([scaler EXCEPT !.metrics = ResourceMetrics(cpu, memory)])

Evaluate ==
    /\ Len(scaler.held) < MaxHeld
    /\ ScaleStep([scaler EXCEPT !.held =
                    Append(@, evaluate_horizontal(scaler.config, scaler.metrics,
                                                  scaler.current_replicas))])

ApplyScaling(i) ==
    /\ i \in 1..Len(scaler.held)
    /\ ScaleStep([scaler EXCEPT
                    !.current_replicas = apply_scaling(@, scaler.held[i]),
                    !.held = SeqWithout(@, i)])

ScaleNext ==
    \/ \E cpu, memory \in Utilizations : UpdateMetrics(cpu, memory)
    \/ Evaluate
    \/ \E i \in 1..MaxHeld : ApplyScaling(i)

ScaleSpec == EngineInit /\ [][ScaleNext]_vars

\* ------------------------------------------------------------- properties
\* What get(k) would return now, and what it would return from a store
\* closed now and opened again on the same files.
GetNow(k) == SlabStorage_get(St, k)
GetReopened(k) == SlabStorage_get(SlabStorage_with_options(St).st, k)

\* The batches replay finds in a log, in file order.
RECURSIVE ReadBatches(_, _)
ReadBatches(bytes, pos) ==
    IF pos > Len(bytes) \/ pos + bytes[pos] + 1 > Len(bytes) THEN <<>>
    ELSE LET r == from_bytes(SubSeq(bytes, pos, pos + bytes[pos] + 1))
         IN IF r.ok THEN <<r.batch>> \o ReadBatches(bytes, pos + bytes[pos] + 2) ELSE <<>>

\* C1: in the first session of a store, a key whose last set returned
\* success and that no set or delete has touched since reads back exactly
\* the value of that set, whatever was done to other keys.
C1_RoundTrip ==
    (open /\ hist.opens = 0) =>
        \A k \in Keys : exp[k] # None => (GetNow(k).ok /\ GetNow(k).val = exp[k])

\* C2: while every set and delete so far has returned success, closing and
\* reopening the store would rebuild exactly the index that is live now.
C2_ReopenIndex ==
    (open /\ hist.noErr) => MetadataStore_recover(meta.log).index = meta.index

\* C3: after successful sets (no delete, no failed call) and a flush, closing
\* and reopening the store makes get(k) return the last value set for k.
C3_Persistence ==
    (open /\ last.op = "flush" /\ hist.noErr /\ hist.noDelete) =>
        \A k \in Keys : exp[k] # None =>
            (GetReopened(k).ok /\ GetReopened(k).val = exp[k])

\* C4: when set(k, v) or delete(k) has returned success, the cache holds no
\* entry for k, so the next get(k) cannot return a value cached before.
C4_CacheInvalidated ==
    (open /\ last.op \in {"set", "delete"} /\ last.ok) =>
        SlabCache_get(cache, last.key).hit = None

C4_Witness ==
    open /\ last.op = "set" /\ last.ok /\ last.cached /\ last.old # None

\* C4 as stated, for every return of set(k, v) or delete(k), an error
\* included: once the call has returned the cache holds no entry for k.
C4_AnyReturn ==
    (open /\ last.op \in {"set", "delete"}) =>
        SlabCache_get(cache, last.key).hit = None

\* C6: when set(k, v) has returned success, the fsync'd part of metadata.log
\* ends with the batch, under the sequence number just consumed, that maps
\* k to the slot the index now holds for it.
C6_AckAfterFsync ==
    (open /\ last.op = "set" /\ last.ok) =>
        LET durable == ReadBatches(SubSeq(meta.log, 1, meta.synced), 1)
        IN /\ durable # <<>>
           /\ durable[Len(durable)].sequence = meta.next_sequence - 1
           /\ durable[Len(durable)].mappings = << <<last.key, meta.index[last.key]>> >>

C6_Witness ==
    open /\ last.op = "set" /\ last.ok /\ last.old # None /\ Len(batches) >= 2

\* C7: a compact_metadata() step leaves the index and the result of get(k)
\* for every key as they were, and the compacted log replays to that index.
C7_CompactionEquivalence ==
    [][(last'.op = "compact" /\ hist'.calls # hist.calls) =>
           /\ meta'.index = meta.index
           /\ \A k \in Keys : GetNow(k)'.val = GetNow(k).val
           /\ MetadataStore_recover(meta'.log).index = meta'.index]_vars

C7_Witness ==
    open /\ last.op = "compact" /\ Cardinality(DOMAIN meta.index) >= 2
         /\ \E k \in Keys : exp[k] # None

\* C9: after a successful set or delete of a key that had a slot, that old
\* slot is in its class's free heap and is what the next allocation in the
\* class returns, with next_offset left as it is.
C9_SlotReuse ==
    (open /\ last.op \in {"set", "delete"} /\ last.ok /\ last.old # None) =>
        LET old == last.old[1]
            sc == size_classes[old.size_class]
            a == SizeClass_allocate(sc)
        IN /\ \E i \in 1..Len(sc.free_slots) : sc.free_slots[i] = old.offset
           /\ a.offset = old.offset
           /\ a.sc.next_offset = sc.next_offset

\* C10: the slot a successful set got from allocate(n) is of a class whose
\* size is at least n + 4, and every smaller class of the table is too
\* small for n + 4 (n is the payload length the slot records).
C10_SlotFit ==
    (open /\ last.op = "set" /\ last.ok) =>
        LET slot == meta.index[last.key]
            n == files[slot][1]
            size == SizeTable[slot.size_class + 1]
        IN /\ size >= n + 4
           /\ \A c \in ClassIdx : SizeTable[c + 1] < size => SizeTable[c + 1] < n + 4

C10_Witness ==
    open /\ last.op = "set" /\ last.ok /\ meta.index[last.key].size_class > 0

\* C5: the batches in metadata.log are in strictly increasing order of their
\* sequence numbers, under every interleaving of the writers.
C5_LogInSequenceOrder ==
    LET bs == ReadBatches(meta.log, 1)
    IN \A i, j \in 1..Len(bs) : i < j => bs[i].sequence < bs[j].sequence

\* The index that the batches before frame f fold to.
RECURSIVE FoldBatches(_)
FoldBatches(bs) ==
    IF bs = <<>> THEN EmptyMap
    ELSE LET m == bs[Len(bs)].batch.mappings
             before == FoldBatches(SubSeq(bs, 1, Len(bs) - 1))
         IN [k \in DOMAIN before \cup {m[i][1] : i \in 1..Len(m)} |->
                IF \E i \in 1..Len(m) : m[i][1] = k
                THEN m[CHOOSE i \in 1..Len(m) :
                            m[i][1] = k /\ \A j \in 1..Len(m) : m[j][1] = k => j <= i][2]
                ELSE before[k]]

\* C8: once a cell of the JSON payload of batch f has been flipped, opening
\* the store replays exactly the f - 1 batches before it: the index is
\* their fold.
C8_ChecksumGuards ==
    (open /\ last.op = "open" /\ tamper.frame > 0) =>
        /\ Len(ReadBatches(meta.log, 1)) = tamper.frame - 1
        /\ meta.index = FoldBatches(SubSeq(batches, 1, tamper.frame - 1))

C8_Witness ==
    open /\ last.op = "open" /\ tamper.frame > 1 /\ tamper.frame < Len(batches)
         /\ meta.index # EmptyMap

\* C11: a key removed by a delete that returned Ok(true) is absent from the
\* index that closing and reopening the store would rebuild.
C11_DeleteDurable ==
    (open /\ last.op = "delete" /\ last.ok /\ last.old # None) =>
        last.key \notin DOMAIN MetadataStore_recover(meta.log).index

\* C12: a create_database(n) made while database n exists fails.
C12_CreateExisting ==
    (last.op = "create_database" /\ last.old # None) => ~last.ok

\* C13: create_database(s) and create_table(_, s, _) succeed exactly when s
\* is a valid name.
C13_NameValidated ==
    /\ (last.op = "create_database" => (last.ok <=> validate_name(last.key)))
    /\ (last.op = "create_table" => (last.ok <=> validate_name(last.key[2])))

\* C14: drop_database(name) and drop_table(db, table) fail when the database
\* or table they name does not exist.
C14_DropAbsent ==
    (last.op \in {"drop_database", "drop_table"} /\ last.old = None) => ~last.ok

\* C15: when drop_table(db, table) has returned, the store holds no key
\* with the prefix doc:{db}:{table}:.
C15_DropTableDocuments ==
    last.op = "drop_table" =>
        \A key \in DOMAIN meta.index :
            ~starts_with(KeyChars(key), DocPrefix(last.key[1], last.key[2]))

\* Byte order of two strings.
RECURSIVE BytesLess(_, _)
BytesLess(a, b) ==
    IF b = <<>> THEN FALSE
    ELSE IF a = <<>> THEN TRUE
    ELSE IF a[1] # b[1] THEN a[1] < b[1]
    ELSE BytesLess(Tail(a), Tail(b))

\* C16: the documents scan_table(db, table) returns are in ascending byte
\* order of their keys, which differ in the primary key only.
C16_ScanOrder ==
    (last.op = "scan_table" /\ last.ok) =>
        \A i, j \in 1..Len(eng.keys) : i < j => BytesLess(eng.keys[i], eng.keys[j])


\* Whether compiling or evaluating the term of this START query fails.
StartFails(query) ==
    /\ query.type = Some("START")
    /\ query.query # None
    /\ LET c == compile_term(query.query[1])
       IN ~c.ok \/ ~execute_term(c.term).ok

C19_StopCancels ==
    \A s \in 1..Len(sess.out) :
        sess.served[s].cancels > 0 =>
            /\ sess.out[s].t = 2
            /\ sess.out[s].r = <<>>
            /\ \A j \in sess.served[s].cancels..(s - 1) :
                   ~(sess.out[j].token = sess.served[s].token /\ sess.out[j].t = 1)

\* C20: reading a frame whose payload length is 0 or more than 256 MiB
\* closes the connection, with no response written for it then or later.
C20_FrameSize ==
    [][ /\ (/\ sess.phase = "reading"
            /\ Len(sess'.inq) < Len(sess.inq)
            /\ (Head(sess.inq).size = 0 \/ Head(sess.inq).size > 256 * 1024 * 1024)) =>
              /\ sess'.phase = "closed"
              /\ sess'.out = sess.out
        /\ sess.phase = "closed" => (sess'.phase = "closed" /\ sess'.out = sess.out)
      ]_vars

\* a connection that had served a request was closed by an oversized frame
\* whose payload would have parsed
C20_Witness ==
    /\ sess.phase = "closed"
    /\ sess.closed_by # None
    /\ sess.closed_by[1].size > 256 * 1024 * 1024
    /\ sess.closed_by[1].valid
    /\ Len(sess.out) = Len(sess.served)
    /\ Len(sess.out) > 0


\* C21: a handshake whose auth key and protocol magic are in order
\* completes exactly when the version magic is one of V0_1, V0_2, V0_3,
\* V0_4 and V1_0, and the reply is the JSON success object for V1_0 and
\* the text SUCCESS for the earlier versions.
C21_VersionsAccepted ==
    (sess.hello # None /\ sess.hello[1].key_len <= 4096
         /\ sess.hello[1].protocol_magic = 2120839367) =>
        /\ sess.handshake.ok <=>
               sess.hello[1].version_magic \in
                   {1063369270, 1915781601, 1601562686, 1074539808, 885177795}
        /\ sess.handshake.ok =>
               sess.handshake.reply =
                   Some(IF sess.hello[1].version_magic = 885177795
                        THEN "json_success" ELSE "SUCCESS")

\* C22: for a client of version V0_3 or later the handshake succeeds only
\* with the JSON protocol magic; with the Protobuf magic it fails and the
\* connection is closed without a session.
C22_ProtobufRejected ==
    (sess.hello # None /\ sess.hello[1].version_magic \in {1601562686, 1074539808, 885177795}) =>
        /\ sess.handshake.ok => sess.hello[1].protocol_magic = 2120839367
        /\ sess.hello[1].protocol_magic = 656407617 =>
               (~sess.handshake.ok /\ sess.phase = "closed")


\* C23: evaluating GetAll, Between, Map, OrderBy, Pluck, Group, Reduce,
\* Insert, Update, Delete, GetField, Append or CoerceTo returns a failure
\* and not a value.
C23_Unimplemented ==
    (ev.result # None /\ ev.term[1].term_type \in {12, 49, 51, 55, 46, 152, 50, 76, 73, 74, 40, 28, 71}) =>
        ~ev.result[1].ok

\* The datum terms among these that hold a number.
RECURSIVE NumericOnly(_)
NumericOnly(terms) ==
    IF terms = <<>> THEN <<>>
    ELSE (IF terms[1].datum[1][1] = 0 THEN <<terms[1]>> ELSE <<>>) \o NumericOnly(Tail(terms))

\* C24: Count, Sum, Avg, Min and Max on an array give what the same
\* operator gives on the array with its non-numeric elements removed.
C24_SkipsNonNumeric ==
    (ev.result # None /\ ev.term[1].term_type \in {57, 153, 154, 155, 156}) =>
        LET array == ev.term[1].args[1]
            numeric == [array EXCEPT !.args = NumericOnly(array.args)]
        IN ev.result[1] = execute_term([ev.term[1] EXCEPT !.args = <<numeric>>])


\* Whether this slot's offset is in the free heap of its size class.
InFreeHeap(slot) ==
    \E i \in 1..Len(size_classes[slot.size_class].free_slots) :
        size_classes[slot.size_class].free_slots[i] = slot.offset

\* C25: after set(k, v) on a key that had a slot, the old slot is in the
\* free heap only if the set got as far as making its batch durable: the
\* set returned success and the log maps k to the slot it allocated.
C25_FreeAfterDurable ==
    (open /\ last.op = "set" /\ last.old # None /\ InFreeHeap(last.old[1])) =>
        /\ last.ok
        /\ last.key \in DOMAIN MetadataStore_recover(meta.log).index
        /\ MetadataStore_recover(meta.log).index[last.key] # last.old[1]

\* C26: no offset in a free heap is the slot the index maps a live key to.
C26_FreeNotHeld ==
    open => \A k \in DOMAIN meta.index : ~InFreeHeap(meta.index[k])

\* C27: a free heap holds each offset at most once.
C27_FreeNoDuplicates ==
    \A c \in DOMAIN size_classes :
        \A i, j \in 1..Len(size_classes[c].free_slots) :
            i # j => size_classes[c].free_slots[i] # size_classes[c].free_slots[j]

\* C28: every offset the index maps a key to, and every offset in a free
\* heap, is below its class's next_offset, also after a reopen.
C28_BelowNextOffset ==
    open =>
        /\ \A k \in DOMAIN meta.index :
               meta.index[k].offset < size_classes[meta.index[k].size_class].next_offset
        /\ \A c \in DOMAIN size_classes :
               \A i \in 1..Len(size_classes[c].free_slots) :
                   size_classes[c].free_slots[i] < size_classes[c].next_offset


\* C29: when no write_batch call is under way, the in-memory index is the
\* index that replaying metadata.log rebuilds: for each key the slot of
\* the last batch in the log that mentions it.
C29_IndexIsFoldOfLog ==
    (\A t \in Threads : pc[t] = "idle") =>
        meta.index = MetadataStore_recover(meta.log).index


\* C30: a write_batch that returned success while a compact() call was
\* under way has its mappings in metadata.log once that call has finished.
C30_CompactKeepsWrites ==
    (cp.pc = "idle" /\ cp.runs > 0) =>
        \A m \in cp.acked :
            \E i \in 1..Len(ReadBatches(meta.log, 1)) :
                \E j \in 1..Len(ReadBatches(meta.log, 1)[i].mappings) :
                    ReadBatches(meta.log, 1)[i].mappings[j] = m


\* C33: when metadata.log ends in a frame cut short, the open that follows
\* succeeds and the index is the fold of the complete batches before that
\* frame.
C33_TornTail ==
    (last.op = "open" /\ "cut" \in DOMAIN tamper) =>
        /\ last.ok
        /\ open
        /\ meta.index = FoldBatches(SubSeq(batches, 1, Len(batches) - 1))

\* C34: after an open, next_sequence is one more than the largest sequence
\* number of the batches replayed, and 0 when no batch was replayed.
C34_NextSequence ==
    (open /\ last.op = "open") =>
        LET bs == ReadBatches(meta.log, 1)
        IN meta.next_sequence =
               IF bs = <<>> THEN 0
               ELSE 1 + (CHOOSE m \in {bs[i].sequence : i \in 1..Len(bs)} :
                             \A i \in 1..Len(bs) : bs[i].sequence <= m)


\* C35: in the first session of a store no two keys of the index have the
\* same slot, whatever calls have failed.
C35_SlotsDistinct ==
    (open /\ hist.opens = 0) =>
        \A k1, k2 \in DOMAIN meta.index : k1 # k2 => meta.index[k1] # meta.index[k2]

\* C36: on a store that has been closed and reopened, a set of a key that
\* was not stored leaves what get returns for every other stored key as
\* it was.
C36_ReopenedSetFrame ==
    [][ (/\ open /\ hist.opens > 0
         /\ last'.op = "set" /\ hist'.calls = hist.calls + 1
         /\ last'.key \notin DOMAIN meta.index) =>
            \A k \in DOMAIN meta.index :
                (GetNow(k).ok' = GetNow(k).ok) /\ (GetNow(k).val' = GetNow(k).val)
      ]_vars

\* C37: a set that returns an error leaves the index, every free heap and
\* what get returns for every key as they were before the call.
C37_FailedSetNoEffect ==
    [][ (open /\ last'.op = "set" /\ hist'.calls = hist.calls + 1 /\ ~last'.ok) =>
            /\ meta'.index = meta.index
            /\ \A c \in DOMAIN size_classes :
                   size_classes'[c].free_slots = size_classes[c].free_slots
            /\ \A k \in Keys :
                   (GetNow(k).ok' = GetNow(k).ok) /\ (GetNow(k).val' = GetNow(k).val)
      ]_vars

\* C31: for a set or delete of key k, the cache entry of k is invalidated
\* before the mutation can be observed: once the index holds the new state of
\* k (the writer is past its index update), the cache holds no older entry of k.
C31_InvalidatedBeforeVisible ==
    \A t \in Threads :
        (InCall(t) /\ pc[t] = "invalidate") =>
            \A i \in CachePos(cache, tl[t].key) :
                tl[t].op = "set" /\ cache[i].data = tl[t].value

\* C32: a get of k that starts after a set of k has returned yields that
\* set's value (or the value of a set that ran beside the get), never an
\* older one, however gets and sets of k interleaved before.
C32_NoStaleRead ==
    \A t \in Threads :
        (InCall(t) /\ tl[t].done /\ tl[t].op = "get" /\ tl[t].ok /\ tl[t].want # None) =>
            /\ tl[t].val # None
            /\ tl[t].val[1] \in {tl[t].want[1]} \cup tl[t].allowed

\* Both threads ran a set of the same existing key side by side: each looked
\* the key up before the other published its mapping.
SetsOverlapped(t, u) ==
    /\ t # u /\ InCall(t) /\ InCall(u)
    /\ tl[t].op = "set" /\ tl[u].op = "set"
    /\ tl[t].key = tl[u].key
    /\ tl[t].old # None /\ tl[t].old = tl[u].old
    /\ tl[t].seen = tl[u].seen

\* C38: when two set calls of the same existing key run side by side, the
\* previous slot of the key is freed exactly once, and after both calls have
\* returned the index maps the key to a slot that is in no free heap.
C38_FreedOnce ==
    \A t, u \in Threads :
        SetsOverlapped(t, u) =>
            /\ ~(tl[t].freed /\ tl[u].freed)
            /\ (tl[t].done /\ tl[u].done /\ tl[t].key \in DOMAIN meta.index) =>
                    ~InFreeHeap(meta.index[tl[t].key])

\* C39: evaluation of a term tree has bounded recursion depth: no evaluation
\* holds more nested execute_term calls than the limit, and a term nested
\* deeper than the limit comes back as a failure.
C39_DepthBounded ==
    (ev.term # None /\ ev.result # None) =>
        /\ LiveCalls(ev.term[1]) <= RecursionLimit
        /\ Nesting(ev.term[1]) > RecursionLimit => ~ev.result[1].ok

\* C40: for a horizontal AutoScaler, after any sequence of update_metrics,
\* evaluate and apply_scaling steps the replica count stays within
\* [min_replicas, max_replicas].
C40_ReplicasInRange ==
    /\ scaler.config.min_replicas <= scaler.current_replicas
    /\ scaler.current_replicas <= scaler.config.max_replicas

====
